---- MODULE Spec2Model ----
(***************************************************************************)
(* Device dispatch of the VMM: the synthetic I/O Bus                       *)
(* (src/vmm/src/devices/bus.rs), the vCPU threads that call it, and the    *)
(* registration of virtio devices with the event loop                     *)
(* (src/vmm/src/devices/virtio/*/event_handler.rs).                        *)
(*                                                                         *)
(* TLC integers are 32 bits wide and MMIO_MEM_START is 0xD000_0000, so the *)
(* address axis is scaled by 2^-8: one model address unit stands for 256   *)
(* bytes.  Every computation of the bus on addresses is an order           *)
(* comparison, a sum, a difference or a division by MMIO_LEN, and all of   *)
(* them commute with the scaling.                                          *)
(***************************************************************************)
EXTENDS Integers, Sequences, FiniteSets, TLC

VARIABLES
    pio_locations,        \* Bus.pio_locations: Vec<(u64, u64)>, (base, len)
    pio_devices,          \* Bus.pio_devices: the device behind each PIO entry
    pio_devices_vtable,   \* Bus.pio_devices_vtable: the device each vtable points to
    mmio_devices,         \* Bus.mmio_devices, in insertion order
    mmio_devices_vtable,  \* Bus.mmio_devices_vtable, in insertion order
    accepted,             \* history: the insert calls that returned Ok, in order
    last,                 \* history: the last completed bus call and what it did
    crashed,              \* the VMM process has panicked
    vcpu,                 \* per vCPU thread: where it is in a bus call
    mutex,                \* per device: the thread holding its Mutex, 0 when free
    callback,             \* event loop: the device whose callback runs, 0 when none
    device_kind,          \* the virtio device under the event loop
    device_state,         \* DeviceState: "Inactive" or "Activated"
    queue_evts,           \* per queue: the counter of its notify eventfd
    avail_idx,            \* per queue: chains the guest made available
    used_idx,             \* per queue: used.idx
    registered,           \* event sources the event manager holds a callback for
    last_run,             \* history: the last run_with_timeout call and its result
    pending_at_activation, \* history: draining queues notified before activate
    attach_pc,            \* do_vfio_magic: the step the attach is about to run
    attach_input,         \* what the host and the device answer during the attach
    attach_trace,         \* history: the calls the attach issued so far, in order
    container_groups,     \* kernel: groups attached to the VFIO container
    iommu_type,           \* kernel: IOMMU driver type of the container
    region_infos,         \* VfioDevice.region_infos: the index of each entry
    kvm_slots,            \* kernel: KVM memory slots installed by the attach
    dma_maps,             \* kernel: IOMMU DMA maps installed by the attach
    bar_infos,            \* VfioDeviceBundle.bar_infos
    expansion_rom_info,   \* VfioDeviceBundle.expansion_rom_info: <<>> is None, <<r>> is Some(r)
    sizing_pending,       \* history: registers whose last write was the sentinel
    config_last,          \* history: the last config-space access and its result
    masks,                \* VfioDeviceBundle.masks, <<>> when None
    msix_cap,             \* VfioDeviceBundle.msix_cap: <<>> is None, <<c>> is Some(c)
    bar_hole_infos,       \* VfioDeviceBundle.bar_hole_infos
    mmio_last,            \* history: the last BAR access and the handlers it ran
    io_pc,                \* SyncFileEngine: "idle", in the loop of read or write, or "done"
    io_req,               \* the request: op, offset, count, and the file and buffer it found
    bytes_done,           \* read / write: bytes_done
    io_file,              \* the bytes of the backing file
    io_buf,               \* the bytes of the guest slice
    io_dirty,             \* bytes of the slice marked in the dirty bitmap
    io_result,            \* what the request returned
    io_calls,             \* history: the read_at / write_at calls of the request
    next_cap_offset,      \* capability walks: next_cap_offset / pci_cap_offset of the loop
    msi_cap,              \* vfio_device_get_pci_capabilities: msi_cap, <<>> is None
    found_caps            \* has_pci_express_cap / has_power_management_cap, as a set

busVars == <<pio_locations, pio_devices, pio_devices_vtable, mmio_devices,
             mmio_devices_vtable, accepted, last, crashed>>
threadVars == <<vcpu, mutex, callback>>
virtioVars == <<device_kind, device_state, queue_evts, avail_idx, used_idx,
                registered, last_run, pending_at_activation>>
attachVars == <<attach_pc, attach_input, attach_trace, container_groups, iommu_type,
                region_infos, kvm_slots, dma_maps>>
bundleVars == <<bar_infos, expansion_rom_info, masks, sizing_pending, config_last,
                msix_cap, bar_hole_infos, mmio_last>>
vfioVars == <<attachVars, bundleVars>>
ioVars == <<io_pc, io_req, bytes_done, io_file, io_buf, io_dirty, io_result, io_calls>>
walkVars == <<next_cap_offset, msi_cap, found_caps>>
vars == <<busVars, threadVars, virtioVars, vfioVars, ioVars, walkVars>>

(***************************************************************************)
(* Program constants (scaled by 2^-8, see above).                          *)
(***************************************************************************)
\* 1 << 32
FIRST_ADDR_PAST_32BITS == 16777216
\* 768 << 20
MEM_32BIT_GAP_SIZE == 3145728
MMIO_MEM_START == FIRST_ADDR_PAST_32BITS - MEM_32BIT_GAP_SIZE
\* crate::device_manager::mmio::MMIO_LEN, 0x1000: the stride of the MMIO slots
MMIO_LEN == 16

(***************************************************************************)
(* Bounds of the model.                                                    *)
(***************************************************************************)
\* insert calls per behaviour
MaxDevices == 3

\* MMIO slots the inputs name
Slots == {0, 1}
SlotBase(k) == MMIO_MEM_START + MMIO_LEN * k

\* (base, len) handed to insert: the PIO ranges of tests::bus_insert and of the
\* overlap scenario ([0x10,0x20), [0x0F,0x1F), [0x20,0x25), a zero length), and
\* one MMIO_LEN range per slot
PioInputs == {<<16, 16>>, <<15, 16>>, <<32, 5>>, <<16, 0>>}
MmioInputs == {<<SlotBase(k), MMIO_LEN>> : k \in Slots}
InsertInputs == PioInputs \cup MmioInputs

\* addresses read and written: below, inside, at the end of and past the PIO
\* ranges; in each slot and in the slot after the last
PioAddrs == {6, 16, 21, 32, 37}
MmioAddrs == {SlotBase(0) + 5, SlotBase(1), SlotBase(1) + 5, SlotBase(2)}
Addrs == PioAddrs \cup MmioAddrs

\* the caller's buffers
Bufs == {<<0, 0>>, <<200, 201>>}

Min(S) == CHOOSE x \in S : \A y \in S : x <= y

\* device 0 stands for no device, thread 0 for no thread
NoLast == [op |-> "none", device |-> 0, base |-> 0, len |-> 0, addr |-> 0,
           buf |-> <<>>, data |-> <<>>, ret |-> "none", calls |-> <<>>]

(***************************************************************************)
(* Devices.                                                                *)
(***************************************************************************)
\* ConstantDevice::bus_read: data[i] = (offset + i) & 0xff
DeviceRead(offset, data) == [i \in 1..Len(data) |-> (offset + (i - 1)) % 256]

(***************************************************************************)
(* Bus lookup, as Bus::read, Bus::write and Bus::get_device do it.         *)
(***************************************************************************)
\* the condition of the PIO loop: *base <= addr && addr <= *base + *len
PioMatch(loc, addr) == loc[1] <= addr /\ addr <= loc[1] + loc[2]

\* the first entry of pio_locations that matches, 0 when none does
PioFind(addr) ==
    LET hits == {i \in 1..Len(pio_locations) : PioMatch(pio_locations[i], addr)}
    IN  IF hits = {} THEN 0 ELSE Min(hits)

\* let index = (addr - MMIO_MEM_START) / MMIO_LEN
MmioIndex(addr) == (addr - MMIO_MEM_START) \div MMIO_LEN
\* let offset = (addr - MMIO_MEM_START) - MMIO_LEN * index
MmioOffset(addr) == (addr - MMIO_MEM_START) - MMIO_LEN * MmioIndex(addr)

\* a lookup that hands the device the bus address instead of the offset
LocateNoOffset(addr) ==
    IF addr < MMIO_MEM_START
    THEN LET i == PioFind(addr)
         IN  IF i = 0
             THEN [kind |-> "miss", device |-> 0, offset |-> 0]
             ELSE [kind |-> "hit", device |-> pio_devices_vtable[i], offset |-> addr]
    ELSE IF MmioIndex(addr) >= Len(mmio_devices_vtable)
         THEN [kind |-> "panic", device |-> 0, offset |-> 0]
         ELSE [kind |-> "hit", device |-> mmio_devices_vtable[MmioIndex(addr) + 1],
               offset |-> addr]

\* The device and offset Bus::read / Bus::write reach for addr: the first
\* matching PIO entry below MMIO_MEM_START, the index-th vtable above it
\* (an index past the end of the Vec panics).
Locate(addr) ==
    IF addr < MMIO_MEM_START
    THEN LET i == PioFind(addr)
         IN  IF i = 0
             THEN [kind |-> "miss", device |-> 0, offset |-> 0]
             ELSE [kind |-> "hit", device |-> pio_devices_vtable[i],
                   offset |-> addr - pio_locations[i][1]]
    ELSE IF MmioIndex(addr) >= Len(mmio_devices_vtable)
         THEN [kind |-> "panic", device |-> 0, offset |-> 0]
         ELSE [kind |-> "hit", device |-> mmio_devices_vtable[MmioIndex(addr) + 1],
               offset |-> MmioOffset(addr)]

\* Bus::get_device: the same lookup over pio_devices / mmio_devices
LocateDevice(addr) ==
    IF addr < MMIO_MEM_START
    THEN LET i == PioFind(addr)
         IN  IF i = 0
             THEN [kind |-> "miss", device |-> 0, offset |-> 0]
             ELSE [kind |-> "hit", device |-> pio_devices[i],
                   offset |-> addr - pio_locations[i][1]]
    ELSE IF MmioIndex(addr) >= Len(mmio_devices)
         THEN [kind |-> "panic", device |-> 0, offset |-> 0]
         ELSE [kind |-> "hit", device |-> mmio_devices[MmioIndex(addr) + 1],
               offset |-> MmioOffset(addr)]

(***************************************************************************)
(* Bus operations, called by one thread at a time.                         *)
(***************************************************************************)
BusInit ==
    /\ pio_locations = <<>>
    /\ pio_devices = <<>>
    /\ pio_devices_vtable = <<>>
    /\ mmio_devices = <<>>
    /\ mmio_devices_vtable = <<>>
    /\ accepted = <<>>
    /\ last = NoLast
    /\ crashed = FALSE

\* the state insert leaves behind: the device is pushed, nothing is compared
InsertEffect(device, base, len) ==
    /\ IF base < MMIO_MEM_START
       THEN /\ pio_devices_vtable' = Append(pio_devices_vtable, device)
            /\ pio_devices' = Append(pio_devices, device)
            /\ pio_locations' = Append(pio_locations, <<base, len>>)
            /\ UNCHANGED <<mmio_devices, mmio_devices_vtable>>
       ELSE /\ mmio_devices_vtable' = Append(mmio_devices_vtable, device)
            /\ mmio_devices' = Append(mmio_devices, device)
            /\ UNCHANGED <<pio_locations, pio_devices, pio_devices_vtable>>
    /\ accepted' = Append(accepted, [device |-> device, base |-> base, len |-> len])

\* Bus::insert(device, base, len); every call inserts a new device
Insert(base, len) ==
    LET device == Len(accepted) + 1
    IN  /\ ~crashed
        /\ Len(accepted) < MaxDevices
        /\ \A t \in DOMAIN vcpu : vcpu[t].state = "idle"
        /\ mutex[device] = 0
        /\ InsertEffect(device, base, len)
        /\ last' = [NoLast EXCEPT !.op = "insert", !.device = device, !.base = base,
                                  !.len = len, !.ret = "Ok"]
        /\ UNCHANGED <<crashed, threadVars, virtioVars, vfioVars, ioVars, walkVars>>

\* Bus::read(addr, data)
Read(addr, buf) ==
    LET r == Locate(addr)
    IN  /\ ~crashed
        /\ \A t \in DOMAIN vcpu : vcpu[t].state = "idle"
        /\ crashed' = (r.kind = "panic")
        /\ last' = [NoLast EXCEPT
                !.op = "read", !.addr = addr, !.buf = buf, !.device = r.device,
                !.data = IF r.kind = "hit" THEN DeviceRead(r.offset, buf) ELSE buf,
                !.ret = CASE r.kind = "hit" -> "true"
                          [] r.kind = "miss" -> "false"
                          [] OTHER -> "panic",
                !.calls = IF r.kind = "hit"
                          THEN <<[device |-> r.device, op |-> "read",
                                  offset |-> r.offset, data |-> buf]>>
                          ELSE <<>>]
        /\ UNCHANGED <<pio_locations, pio_devices, pio_devices_vtable, mmio_devices,
                       mmio_devices_vtable, accepted, threadVars, virtioVars, vfioVars, ioVars, walkVars>>

\* Bus::write(addr, data)
Write(addr, buf) ==
    LET r == Locate(addr)
    IN  /\ ~crashed
        /\ \A t \in DOMAIN vcpu : vcpu[t].state = "idle"
        /\ crashed' = (r.kind = "panic")
        /\ last' = [NoLast EXCEPT
                !.op = "write", !.addr = addr, !.buf = buf, !.device = r.device,
                !.data = buf,
                !.ret = CASE r.kind = "hit" -> "true"
                          [] r.kind = "miss" -> "false"
                          [] OTHER -> "panic",
                !.calls = IF r.kind = "hit"
                          THEN <<[device |-> r.device, op |-> "write",
                                  offset |-> r.offset, data |-> buf]>>
                          ELSE <<>>]
        /\ UNCHANGED <<pio_locations, pio_devices, pio_devices_vtable, mmio_devices,
                       mmio_devices_vtable, accepted, threadVars, virtioVars, vfioVars, ioVars, walkVars>>

\* Bus::get_device(addr)
GetDevice(addr) ==
    LET r == LocateDevice(addr)
    IN  /\ ~crashed
        /\ \A t \in DOMAIN vcpu : vcpu[t].state = "idle"
        /\ crashed' = (r.kind = "panic")
        /\ last' = [NoLast EXCEPT
                !.op = "get_device", !.addr = addr, !.device = r.device,
                !.base = r.offset,
                !.ret = CASE r.kind = "hit" -> "Some"
                          [] r.kind = "miss" -> "None"
                          [] OTHER -> "panic"]
        /\ UNCHANGED <<pio_locations, pio_devices, pio_devices_vtable, mmio_devices,
                       mmio_devices_vtable, accepted, threadVars, virtioVars, vfioVars, ioVars, walkVars>>

(***************************************************************************)
(* vCPU threads.  Every vCPU thread holds a clone of the Bus, which shares *)
(* the devices, and calls Bus::read / Bus::write on a KVM exit.            *)
(***************************************************************************)
Threads == {1, 2}
Idle == [state |-> "idle", device |-> 0, op |-> "none"]

ThreadsInit ==
    /\ vcpu = [t \in Threads |-> Idle]
    /\ mutex = [d \in 1..(MaxDevices + 1) |-> 0]
    /\ callback = 0

\* Bus::read / Bus::write up to the call through the vtable: the lookup, then
\* vtable.read(offset, data) / vtable.write(offset, data) on the raw pointer
\* the vtable holds.  The device's Mutex is not taken.
BusEnter(t, addr, op) ==
    LET r == Locate(addr)
    IN  /\ ~crashed
        /\ vcpu[t].state = "idle"
        /\ crashed' = (r.kind = "panic")
        /\ vcpu' = IF r.kind = "hit"
                   THEN [vcpu EXCEPT ![t] = [state |-> "in_handler",
                                             device |-> r.device, op |-> op]]
                   ELSE vcpu
        /\ UNCHANGED <<pio_locations, pio_devices, pio_devices_vtable, mmio_devices,
                       mmio_devices_vtable, accepted, last, mutex, callback, virtioVars, vfioVars,
                       ioVars, walkVars>>

\* the device's bus_read / bus_write returns, and Bus::read / Bus::write with it
BusReturn(t) ==
    /\ ~crashed
    /\ vcpu[t].state = "in_handler"
    /\ vcpu' = [vcpu EXCEPT ![t] = Idle]
    /\ UNCHANGED <<busVars, mutex, callback, virtioVars, vfioVars, ioVars, walkVars>>

\* Bus::get_device(addr) hands out the device's Mutex; the caller locks it
\* (and waits while another thread holds it) to call BusDevice::read / write
LockDevice(t, addr) ==
    LET r == LocateDevice(addr)
    IN  /\ ~crashed
        /\ vcpu[t].state = "idle"
        /\ r.kind = "hit"
        /\ mutex[r.device] = 0
        /\ mutex' = [mutex EXCEPT ![r.device] = t]
        /\ vcpu' = [vcpu EXCEPT ![t] = [state |-> "locked", device |-> r.device,
                                        op |-> "none"]]
        /\ UNCHANGED <<busVars, callback, virtioVars, vfioVars, ioVars, walkVars>>

\* the MutexGuard is dropped
UnlockDevice(t) ==
    /\ ~crashed
    /\ vcpu[t].state = "locked"
    /\ mutex' = [mutex EXCEPT ![vcpu[t].device] = 0]
    /\ vcpu' = [vcpu EXCEPT ![t] = Idle]
    /\ UNCHANGED <<busVars, callback, virtioVars, vfioVars, ioVars, walkVars>>

\* the event loop calls an action register() added for device d: the closure
\* turns the self_ptr it captured into &mut Self and calls the device's
\* process_*_event.  It holds no reference to the device's Mutex and takes no
\* lock.
CallbackEnter(d) ==
    /\ ~crashed
    /\ callback = 0
    /\ d \in 1..Len(accepted)
    /\ callback' = d
    /\ UNCHANGED <<busVars, vcpu, mutex, virtioVars, vfioVars, ioVars, walkVars>>

\* the process_*_event handler returns to the event loop
CallbackReturn ==
    /\ ~crashed
    /\ callback # 0
    /\ callback' = 0
    /\ UNCHANGED <<busVars, vcpu, mutex, virtioVars, vfioVars, ioVars, walkVars>>

(***************************************************************************)
(* Virtio devices and the event loop.                                      *)
(***************************************************************************)
\* queue notifications written to one eventfd before it is read
MaxNotify == 1
\* descriptor chains the guest makes available per queue
MaxChains == 1

\* the device under the event loop: its type, and (block) whether the file
\* engine is FileEngine::Async, (balloon) whether stats_enabled()
DeviceConfigs ==
    {[type |-> "net", opt |-> FALSE],
     [type |-> "block", opt |-> FALSE], [type |-> "block", opt |-> TRUE],
     [type |-> "balloon", opt |-> FALSE], [type |-> "balloon", opt |-> TRUE]}

\* the queue notify eventfds of a device (queue_evts)
QueueSources(cfg) ==
    CASE cfg.type = "net" -> {"rx_queue", "tx_queue"}
      [] cfg.type = "block" -> {"queue"}
      [] cfg.type = "balloon" ->
            {"inflate_queue", "deflate_queue"}
                \cup (IF cfg.opt THEN {"stats_queue"} ELSE {})

\* a register that leaves out the first queue eventfd of the device
RegisterMissingQueue(cfg) ==
    CASE cfg.type = "net" ->
            {"rx_queue", "tap", "rx_rate_limiter", "tx_rate_limiter"}
      [] cfg.type = "block" ->
            {"rate_limiter"} \cup (IF cfg.opt THEN {"completion_evt"} ELSE {})
      [] cfg.type = "balloon" ->
            {"deflate_queue"}
                \cup (IF cfg.opt THEN {"stats_queue", "stats_timer"} ELSE {})

\* RegisterEvents::register of Net, VirtioBlock and Balloon: the file
\* descriptors it adds to the event manager, each with EventSet::IN and a
\* callback that calls the device's handler for it
Register(cfg) ==
    CASE cfg.type = "net" ->
            {"rx_queue", "tx_queue", "tap", "rx_rate_limiter", "tx_rate_limiter"}
      [] cfg.type = "block" ->
            {"queue", "rate_limiter"}
                \cup (IF cfg.opt THEN {"completion_evt"} ELSE {})
      [] cfg.type = "balloon" ->
            {"inflate_queue", "deflate_queue"}
                \cup (IF cfg.opt THEN {"stats_queue", "stats_timer"} ELSE {})

\* The queues whose handler retires every available chain when it runs:
\* process_tx_queue_event, process_queue_event, process_inflate_queue_event,
\* process_deflate_queue_event.  process_rx_queue_event delivers frames the
\* device holds (none here) and process_stats_queue_event keeps the stats
\* descriptor until the timer ticks.
DrainingQueues == {"tx_queue", "queue", "inflate_queue", "deflate_queue"}

\* a device whose event sources are registered when it is built
RegisteredAtConstructionAll(cfg) == Register(cfg)

\* a device is constructed inactive: no event source is registered
RegisteredAtConstruction(cfg) == {}

VirtioInitOf(cfg) ==
    /\ device_kind = cfg
    /\ device_state = "Inactive"
    /\ queue_evts = [q \in QueueSources(cfg) |-> 0]
    /\ avail_idx = [q \in QueueSources(cfg) |-> 0]
    /\ used_idx = [q \in QueueSources(cfg) |-> 0]
    /\ registered = RegisteredAtConstruction(cfg)
    /\ last_run = [activated |-> FALSE, pending |-> 0, count |-> 0]
    /\ pending_at_activation = {}

Pending == {q \in DOMAIN queue_evts : queue_evts[q] > 0}

\* the guest driver puts a descriptor chain on the avail ring of q
GuestAddChain(q) ==
    /\ avail_idx[q] < MaxChains
    /\ avail_idx' = [avail_idx EXCEPT ![q] = @ + 1]
    /\ UNCHANGED <<busVars, threadVars, vfioVars, ioVars, walkVars, device_kind, device_state, queue_evts,
                   used_idx, registered, last_run, pending_at_activation>>

\* queue_evts[q].write(1): the eventfd counter grows by one
QueueNotify(q) ==
    /\ queue_evts[q] < MaxNotify
    /\ queue_evts' = [queue_evts EXCEPT ![q] = @ + 1]
    /\ UNCHANGED <<busVars, threadVars, vfioVars, ioVars, walkVars, device_kind, device_state, avail_idx,
                   used_idx, registered, last_run, pending_at_activation>>

\* DRIVER_OK: the device is activated and its event sources are registered
Activate ==
    /\ device_state = "Inactive"
    /\ device_state' = "Activated"
    /\ registered' = registered \cup Register(device_kind)
    /\ pending_at_activation' = Pending \cap DrainingQueues
    /\ UNCHANGED <<busVars, threadVars, vfioVars, ioVars, walkVars, device_kind, queue_evts, avail_idx,
                   used_idx, last_run>>

\* the registered queue eventfds that are readable
Ready == registered \cap Pending

\* EventManager::run_with_timeout: every ready registered source has its
\* callback called once; the queue handler reads the eventfd (the counter
\* drops to 0) and, on a draining queue, retires the available chains.
\* Returns the number of events dispatched (0 on timeout).
RunEventLoop ==
    /\ queue_evts' = [q \in DOMAIN queue_evts |->
                         IF q \in Ready THEN 0 ELSE queue_evts[q]]
    /\ used_idx' = [q \in DOMAIN used_idx |->
                         IF q \in Ready \cap DrainingQueues
                         THEN avail_idx[q] ELSE used_idx[q]]
    /\ last_run' = [activated |-> (device_state = "Activated"),
                    pending |-> Cardinality(Pending \cap DrainingQueues),
                    count |-> Cardinality(Ready)]
    /\ UNCHANGED <<busVars, threadVars, vfioVars, ioVars, walkVars, device_kind, device_state, avail_idx,
                   registered, pending_at_activation>>

(***************************************************************************)
(* VFIO attach: do_vfio_magic and the functions it calls                   *)
(* (src/vmm/src/vfio/mod.rs, src/vmm/src/vfio/ioctls/ioctls.rs).  A failed *)
(* call is an unwrap() or a panic!(): the attach stops where it is.        *)
(***************************************************************************)
\* mappable areas of the BARs that mmap_bars walks
MaxAreas == 2
\* regions of the guest memory
MaxDram == 2

VFIO_PCI_CONFIG_REGION_INDEX == 7
\* device_info.num_regions: with and without the optional VGA region
NumRegions == {8, 9}

\* a region of the guest memory: its type, start_addr() and size() in MiB,
\* as_ptr() in MiB of the host address space, and prot()
GuestRegion(i, region_type, prot) ==
    [region_type |-> region_type, start_addr |-> (i - 1) * 1024, size |-> 512 + i,
     as_ptr |-> 4096 * i + 7, prot |-> prot]
\* the guest memories: up to MaxDram regions, each Dram or Hotplug, mapped
\* read-only or read-write
GuestMemories ==
    UNION {{[i \in 1..n |-> GuestRegion(i, kind[i][1], kind[i][2])] :
               kind \in [1..n -> {"Dram", "Hotplug"} \X {{"PROT_READ"}, {"PROT_READ", "PROT_WRITE"}}]} :
           n \in 1..MaxDram}

AttachInputs ==
    [reset : BOOLEAN, num_regions : NumRegions, areas : 0..MaxAreas,
     guest_memory : GuestMemories]

\* the order of the calls in do_vfio_magic and get_device, with SET_IOMMU
\* moved in front of GROUP_SET_CONTAINER
AfterStepIommuFirst(step) ==
    CASE step = "vfio_open" -> "vfio_check_api_version"
      [] step = "vfio_check_api_version" -> "vfio_check_extension"
      [] step = "vfio_check_extension" -> "vfio_group_open"
      [] step = "vfio_group_open" -> "vfio_group_check_status"
      [] step = "vfio_group_check_status" -> "vfio_container_set_iommu"
      [] step = "vfio_container_set_iommu" -> "group_set_container"
      [] step = "group_set_container" -> "vfio_group_get_device"
      [] step = "vfio_group_get_device" -> "vfio_device_get_info"
      [] step = "vfio_device_get_info" -> "vfio_device_reset"
      [] step = "vfio_device_reset" -> "vfio_device_get_region_infos"
      [] step = "vfio_device_get_region_infos" -> "pci_cap_walk"
      [] step = "pci_cap_walk" -> "vfio_device_get_irq_infos"
      [] step = "vfio_device_get_irq_infos" -> "device_get_bar_infos"
      [] step = "device_get_bar_infos" -> "vfio_device_get_pci_capabilities"
      [] step = "vfio_device_get_pci_capabilities" -> "mmap_bars"
      [] step = "mmap_bars" -> "dma_map_guest_memory"
      [] step = "dma_map_guest_memory" -> "returned"

\* the order of the calls in do_vfio_magic and get_device; mmap_bars and
\* dma_map_guest_memory follow where do_vfio_magic names them
AfterStep(step) ==
    CASE step = "vfio_open" -> "vfio_check_api_version"
      [] step = "vfio_check_api_version" -> "vfio_check_extension"
      [] step = "vfio_check_extension" -> "vfio_group_open"
      [] step = "vfio_group_open" -> "vfio_group_check_status"
      [] step = "vfio_group_check_status" -> "group_set_container"
      [] step = "group_set_container" -> "vfio_container_set_iommu"
      [] step = "vfio_container_set_iommu" -> "vfio_group_get_device"
      [] step = "vfio_group_get_device" -> "vfio_device_get_info"
      [] step = "vfio_device_get_info" -> "vfio_device_reset"
      [] step = "vfio_device_reset" -> "vfio_device_get_region_infos"
      [] step = "vfio_device_get_region_infos" -> "pci_cap_walk"
      [] step = "pci_cap_walk" -> "vfio_device_get_irq_infos"
      [] step = "vfio_device_get_irq_infos" -> "device_get_bar_infos"
      [] step = "device_get_bar_infos" -> "vfio_device_get_pci_capabilities"
      [] step = "vfio_device_get_pci_capabilities" -> "mmap_bars"
      [] step = "mmap_bars" -> "dma_map_guest_memory"
      [] step = "dma_map_guest_memory" -> "returned"

AttachInitOf(inp) ==
    /\ attach_pc = "vfio_open"
    /\ attach_input = inp
    /\ attach_trace = <<>>
    /\ container_groups = {}
    /\ iommu_type = "none"
    /\ region_infos = <<>>
    /\ kvm_slots = {}
    /\ dma_maps = {}

\* one call of the attach: it is recorded, and the attach goes on to the
\* next step when it succeeded and panics when it failed
Issue(step, call, ok) ==
    /\ attach_pc = step
    /\ attach_trace' = Append(attach_trace, [call |-> call, ok |-> ok])
    /\ attach_pc' = IF ok THEN AfterStep(step) ELSE "panicked"

Calls(call) == {i \in 1..Len(attach_trace) : attach_trace[i].call = call}
Succeeded(call) == {i \in Calls(call) : attach_trace[i].ok}

\* what no step of the attach touches
AttachFrame == UNCHANGED <<busVars, threadVars, virtioVars, ioVars, walkVars, bundleVars, attach_input>>

\* steps that change nothing in the kernel's container, the region list or
\* the mappings
Plain(step, call, ok) ==
    /\ Issue(step, call, ok)
    /\ AttachFrame
    /\ UNCHANGED <<container_groups, iommu_type, region_infos, kvm_slots, dma_maps>>

\* open("/dev/vfio/vfio").unwrap()
VfioOpen ==
    /\ attach_pc = "vfio_open"
    /\ \E ok \in BOOLEAN : Plain("vfio_open", "open_container", ok)

\* panics unless the version is VFIO_API_VERSION
VfioCheckApiVersion ==
    /\ attach_pc = "vfio_check_api_version"
    /\ \E ok \in BOOLEAN : Plain("vfio_check_api_version", "VFIO_GET_API_VERSION", ok)

\* check_extension(..).unwrap(), panics unless the answer is 1
VfioCheckExtension ==
    /\ attach_pc = "vfio_check_extension"
    /\ \E ok \in BOOLEAN : Plain("vfio_check_extension", "VFIO_CHECK_EXTENSION", ok)

\* group_id_from_device_path and open("/dev/vfio/<id>").unwrap()
VfioGroupOpen ==
    /\ attach_pc = "vfio_group_open"
    /\ \E ok \in BOOLEAN : Plain("vfio_group_open", "open_group", ok)

\* group_get_status(..).unwrap(), panics unless the flags are VIABLE
VfioGroupCheckStatus ==
    /\ attach_pc = "vfio_group_check_status"
    /\ \E ok \in BOOLEAN : Plain("vfio_group_check_status", "VFIO_GROUP_GET_STATUS", ok)

\* group_set_container(&group, &container).unwrap()
GroupSetContainer ==
    \E ok \in BOOLEAN :
        /\ Issue("group_set_container", "VFIO_GROUP_SET_CONTAINER", ok)
        /\ container_groups' = IF ok THEN container_groups \cup {"group"}
                               ELSE container_groups
        /\ AttachFrame
        /\ UNCHANGED <<iommu_type, region_infos, kvm_slots, dma_maps>>

\* set_iommu(container, VFIO_TYPE1v2_IOMMU).unwrap(); the kernel refuses it
\* on a container without a group and on one whose type is already set
VfioContainerSetIommu ==
    \E ok \in BOOLEAN :
        /\ ok => (container_groups # {} /\ iommu_type = "none")
        /\ Issue("vfio_container_set_iommu", "VFIO_SET_IOMMU", ok)
        /\ iommu_type' = IF ok THEN "Type1v2" ELSE iommu_type
        /\ AttachFrame
        /\ UNCHANGED <<container_groups, region_infos, kvm_slots, dma_maps>>

\* group_get_device_fd(group, &path).unwrap()
VfioGroupGetDevice ==
    /\ attach_pc = "vfio_group_get_device"
    /\ \E ok \in BOOLEAN : Plain("vfio_group_get_device", "VFIO_GROUP_GET_DEVICE_FD", ok)

\* device_get_info(device, &mut dev_info).unwrap()
VfioDeviceGetInfo ==
    /\ attach_pc = "vfio_device_get_info"
    /\ \E ok \in BOOLEAN : Plain("vfio_device_get_info", "VFIO_DEVICE_GET_INFO", ok)

\* device_reset is called when the device has FLAGS_RESET, its result is dropped
VfioDeviceReset ==
    /\ attach_pc = "vfio_device_reset"
    /\ \/ /\ attach_input.reset
          /\ \E ok \in BOOLEAN :
                attach_trace' = Append(attach_trace,
                                       [call |-> "VFIO_DEVICE_RESET", ok |-> ok])
       \/ /\ ~attach_input.reset
          /\ UNCHANGED attach_trace
    /\ attach_pc' = AfterStep("vfio_device_reset")
    /\ AttachFrame
    /\ UNCHANGED <<container_groups, iommu_type, region_infos, kvm_slots, dma_maps>>

\* the regions pushed when the queries of the regions in failed return an error
Enumerated(n, failed) == SelectSeq([i \in 1..n |-> i - 1], LAMBDA r : r \notin failed)

\* for every region: a failed DEVICE_GET_REGION_INFO skips the region (here
\* BAR0, BAR1 or the VGA region may fail), the second query of a region
\* with capabilities is unwrapped
VfioDeviceGetRegionInfos ==
    \E failed \in SUBSET {0, 1, 8}, caps_ok \in BOOLEAN :
        /\ Issue("vfio_device_get_region_infos", "VFIO_DEVICE_GET_REGION_INFO", caps_ok)
        /\ region_infos' = IF caps_ok
                           THEN Enumerated(attach_input.num_regions, failed)
                           ELSE region_infos
        /\ AttachFrame
        /\ UNCHANGED <<container_groups, iommu_type, kvm_slots, dma_maps>>

\* vfio_device_region_read of the config region: region_infos is indexed by
\* the region's number, out of bounds and a failed pread panic
ConfigRegionRead(ok) == ok => Len(region_infos) > VFIO_PCI_CONFIG_REGION_INDEX

\* get_device: the walk that logs the capability ids
GetDevicePciCapWalk ==
    \E ok \in BOOLEAN :
        /\ ConfigRegionRead(ok)
        /\ Plain("pci_cap_walk", "pci_capability_walk", ok)

\* a failed DEVICE_GET_IRQ_INFO is logged
VfioDeviceGetIrqInfos ==
    /\ attach_pc = "vfio_device_get_irq_infos"
    /\ Plain("vfio_device_get_irq_infos", "VFIO_DEVICE_GET_IRQ_INFO", TRUE)

\* sizes every BAR through the config region and allocates its range
DeviceGetBarInfos ==
    \E ok \in BOOLEAN :
        /\ ConfigRegionRead(ok)
        /\ Plain("device_get_bar_infos", "bar_sizing", ok)

\* the walk that records the MSI and MSI-X capabilities and the masks
VfioDeviceGetPciCapabilities ==
    \E ok \in BOOLEAN :
        /\ ConfigRegionRead(ok)
        /\ Plain("vfio_device_get_pci_capabilities", "pci_capability_walk", ok)

\* the calls of one iteration of a loop, up to the one that failed
Outcome(calls, failed_at) ==
    [i \in 1..(IF failed_at = 0 THEN Len(calls) ELSE failed_at) |->
        [call |-> calls[i], ok |-> i # failed_at]]

AreaCalls == <<"mmap", "next_kvm_slot", "KVM_SET_USER_MEMORY_REGION", "VFIO_IOMMU_MAP_DMA">>

AreasDone == Cardinality(Calls("mmap"))

\* mmap_bars, one mappable area: mmap, a KVM memory slot for it, then its
\* IOMMU map; each of them panics when it fails
MmapBarsArea ==
    /\ attach_pc = "mmap_bars"
    /\ AreasDone < attach_input.areas
    /\ \E failed_at \in 0..Len(AreaCalls) :
        /\ attach_trace' = attach_trace \o Outcome(AreaCalls, failed_at)
        /\ kvm_slots' = IF failed_at \in {0, 4} THEN kvm_slots \cup {AreasDone + 1}
                        ELSE kvm_slots
        /\ dma_maps' = IF failed_at = 0 THEN dma_maps \cup {<<"bar", AreasDone + 1>>}
                       ELSE dma_maps
        /\ attach_pc' = IF failed_at = 0 THEN "mmap_bars" ELSE "panicked"
    /\ AttachFrame
    /\ UNCHANGED <<container_groups, iommu_type, region_infos>>

\* mmap_bars returns the holes when every area is mapped
MmapBarsReturn ==
    /\ attach_pc = "mmap_bars"
    /\ AreasDone = attach_input.areas
    /\ attach_pc' = AfterStep("mmap_bars")
    /\ AttachFrame
    /\ UNCHANGED <<attach_trace, container_groups, iommu_type, region_infos,
                   kvm_slots, dma_maps>>

DramDone == Cardinality({m \in dma_maps : m[1] = "dram"})

\* a loop that maps every region of the guest memory, whatever its type
EveryRegion(guest_memory) == guest_memory

\* the regions that the loop of dma_map_guest_memory maps, in its order
DramRegions(guest_memory) ==
    SelectSeq(guest_memory, LAMBDA region : region.region_type = "Dram")

\* the vfio_iommu_type1_dma_map of a region
DmaMapOf(region) ==
    [flags |-> (IF "PROT_READ" \in region.prot THEN {"VFIO_DMA_MAP_FLAG_READ"} ELSE {})
               \cup (IF "PROT_WRITE" \in region.prot THEN {"VFIO_DMA_MAP_FLAG_WRITE"}
                     ELSE {}),
     vaddr |-> region.as_ptr, iova |-> region.start_addr, size |-> region.size]

\* dma_map_guest_memory, one Dram region: iommu_map_dma(..).unwrap()
DmaMapGuestMemoryRegion ==
    /\ attach_pc = "dma_map_guest_memory"
    /\ DramDone < Len(DramRegions(attach_input.guest_memory))
    /\ \E ok \in BOOLEAN :
        /\ attach_trace' = Append(attach_trace,
                                  [call |-> "VFIO_IOMMU_MAP_DMA", ok |-> ok])
        /\ dma_maps' =
             IF ok
             THEN dma_maps \cup
                  {<<"dram", DramDone + 1,
                     DmaMapOf(DramRegions(attach_input.guest_memory)[DramDone + 1])>>}
             ELSE dma_maps
        /\ attach_pc' = IF ok THEN "dma_map_guest_memory" ELSE "panicked"
    /\ AttachFrame
    /\ UNCHANGED <<container_groups, iommu_type, region_infos, kvm_slots>>

\* every Dram region is mapped: the attach is complete
DmaMapGuestMemoryReturn ==
    /\ attach_pc = "dma_map_guest_memory"
    /\ DramDone = Len(DramRegions(attach_input.guest_memory))
    /\ attach_pc' = AfterStep("dma_map_guest_memory")
    /\ AttachFrame
    /\ UNCHANGED <<attach_trace, container_groups, iommu_type, region_infos,
                   kvm_slots, dma_maps>>

\* no config-space access and no BAR access yet
NoConfig == [op |-> "none", reg_idx |-> 0, len |-> 0, value |-> {}, ret |-> {},
             pending |-> FALSE, forwards |-> 0, config_offset |-> 0, dword |-> {}]
NoMmio == [op |-> "none", base |-> {}, offset |-> 0, len |-> 0, calls |-> <<>>]

(***************************************************************************)
(* Machine words.  TLC integers are 32 bits wide, the registers and the    *)
(* guest addresses of a passed-through device are u32 and u64: a word is   *)
(* the set of the positions of its 1 bits, so that 0x4000 is {14} and      *)
(* 0xFFFF_C004 is {2} \cup 14..31.                                         *)
(***************************************************************************)
U32 == 0..31
U64 == 0..63
\* !x on a u64
Not64(x) == U64 \ x
\* x as u32, x & 0xFFFF_FFFF
Trunc32(x) == x \cap U32
\* x >> n
Shr(x, n) == {b - n : b \in {c \in x : c >= n}}
\* x << n on a u64
Shl64(x, n) == {b + n : b \in {c \in x : c + n <= 63}}
\* x - 1 on a u64 (wrapping at 0)
Dec64(x) == IF x = {} THEN U64 ELSE (x \ {Min(x)}) \cup {b \in U64 : b < Min(x)}
\* the u64 of a number below 2^31
BitsOf(n) == {b \in 0..30 : ((n \div (2^b)) % 2) = 1}
\* x + y on a u64 (wrapping), bit by bit from bit b with the carry
RECURSIVE AddFrom(_, _, _, _)
AddFrom(x, y, b, carry) ==
    IF b > 63 THEN {}
    ELSE LET sum == (IF b \in x THEN 1 ELSE 0) + (IF b \in y THEN 1 ELSE 0) + carry
         IN (IF (sum % 2) = 1 THEN {b} ELSE {}) \cup AddFrom(x, y, b + 1, sum \div 2)
Add64(x, y) == IF x \cap y = {} THEN x \cup y ELSE AddFrom(x, y, 0, 0)
\* x <= y on u64: the highest bit in which they differ is in y
Leq64(x, y) ==
    LET diff == (x \ y) \cup (y \ x)
    IN diff = {} \/ (CHOOSE b \in diff : \A c \in diff : c <= b) \in y

(***************************************************************************)
(* The config space of a passed-through device: PciDevice for              *)
(* VfioDeviceBundle (src/vmm/src/vfio/mod.rs).                             *)
(***************************************************************************)
\* BarInfo as device_get_bar_infos records it
BarInfo(idx, gpa, size, is_64_bits, is_prefetchable) ==
    [idx |-> idx, gpa |-> gpa, size |-> size, is_64_bits |-> is_64_bits,
     is_prefetchable |-> is_prefetchable, about_to_read_size |-> FALSE]

\* ExpansionRomInfo as device_get_expansion_rom_info records it: extra is
\* rom_raw & 0xFFF of a ROM register whose bit 0 is set
ExpansionRomInfo(gpa, size, extra) ==
    [gpa |-> gpa, size |-> size, extra |-> extra, about_to_read_size |-> FALSE]

\* the devices of the model:
\*  1. BAR0 64-bit, 0x4000 bytes at 0x40_0000_4000; BAR2 32-bit prefetchable,
\*     0x1000 bytes at 0xC000_1000; ROM with recorded size 0x1_0000 at
\*     0xC001_0000, extra 0x001
\*  2. BAR0 64-bit prefetchable, 0x2_0000_0000 bytes at 0x48_0000_0000; ROM
\*     with recorded size 0xFFFF_0000 at 0xC800_0000, extra 0x003; the
\*     register 0x100 masked with (0xFFFF_0000, 0)
\*  3. BAR2 32-bit, 0x1000 bytes at 0xC000_2000; no ROM
Bundles ==
    { [bar_infos |-> <<BarInfo(0, {38, 14}, {14}, TRUE, FALSE),
                       BarInfo(2, {31, 30, 12}, {12}, FALSE, TRUE)>>,
       rom |-> <<ExpansionRomInfo({31, 30, 16}, {16}, {0})>>,
       masks |-> <<>>],
      [bar_infos |-> <<BarInfo(0, {38, 35}, {33}, TRUE, TRUE)>>,
       rom |-> <<ExpansionRomInfo({31, 30, 27}, 16..31, {0, 1})>>,
       masks |-> <<[register |-> 64, mask |-> 16..31, value |-> {}]>>],
      [bar_infos |-> <<BarInfo(2, {31, 30, 13}, {12}, FALSE, FALSE)>>,
       rom |-> <<>>,
       masks |-> <<>>] }

BundleInitOf(b) ==
    /\ bar_infos = b.bar_infos
    /\ expansion_rom_info = b.rom
    /\ masks = b.masks
    /\ sizing_pending = {}
    /\ config_last = NoConfig

\* the registers the guest accesses: command, BAR0..BAR3, ROM, 0x100
ConfigRegs == {1, 4, 5, 6, 7, 12, 64}
\* the data of a config write: 0xFFFF_FFFF, 0 and the two bytes 0xFFFF
ConfigData == {[len |-> 4, value |-> U32], [len |-> 4, value |-> {}],
               [len |-> 2, value |-> 0..15]}
\* what the device answers to a read of its config region
DeviceDwords == {U32, {0, 4, 20}}

IsBarReg(reg_idx) == 4 <= reg_idx /\ reg_idx < 10

\* data.len() == 4 and u32::from_le_bytes(data) == 0xFFFF_FFFF
LooksLikeRequestToRead(data) == data.len = 4 /\ data.value = U32

\* bar_idx names the register of this BAR, or the high register of it
Targets(bar_info, bar_idx) ==
    \/ bar_idx = bar_info.idx
    \/ bar_idx = bar_info.idx + 1 /\ bar_info.is_64_bits

\* !(bar_info.size - 1) with the decrement left out
SizeMaskNoDec(size) == Not64(size)

\* !(bar_info.size - 1)
SizeMask(size) == Not64(Dec64(size))

\* the type bits of a memory BAR: 0b10 << 1 and 0b1000
TypeBits(bar_info) ==
    (IF bar_info.is_64_bits THEN {2} ELSE {}) \cup
    (IF bar_info.is_prefetchable THEN {3} ELSE {})

\* one iteration of the loop of read_config_register over bar_infos
BarRegister(bar_info, bar_idx, result) ==
    IF bar_idx = bar_info.idx
    THEN IF bar_info.about_to_read_size
         THEN Trunc32(SizeMask(bar_info.size))
         ELSE Trunc32(bar_info.gpa) \cup TypeBits(bar_info)
    ELSE IF bar_info.is_64_bits /\ bar_idx = bar_info.idx + 1
         THEN IF bar_info.about_to_read_size
              THEN Shr(SizeMask(bar_info.size), 32)
              ELSE Shr(bar_info.gpa, 32)
         ELSE result

RECURSIVE BarRegisters(_, _, _)
BarRegisters(i, bar_idx, result) ==
    IF i > Len(bar_infos) THEN result
    ELSE BarRegisters(i + 1, bar_idx, BarRegister(bar_infos[i], bar_idx, result))

\* reg_idx == 12 of read_config_register
RomRegister ==
    IF expansion_rom_info = <<>> THEN {}
    ELSE IF expansion_rom_info[1].about_to_read_size
         THEN expansion_rom_info[1].size
         ELSE Trunc32(Shl64(expansion_rom_info[1].gpa, 11)) \cup expansion_rom_info[1].extra

\* a read that or-s the value of the mask and keeps every bit of the dword
MaskedWithoutAnd(reg_idx, dword) ==
    IF \A i \in DOMAIN masks : masks[i].register # reg_idx
    THEN dword
    ELSE dword \cup masks[Min({i \in DOMAIN masks : masks[i].register = reg_idx})].value

\* the first RegisterMask recorded for the register, applied as
\* (R & mask) | value
Masked(reg_idx, dword) ==
    IF \A i \in DOMAIN masks : masks[i].register # reg_idx
    THEN dword
    ELSE LET mask == masks[Min({i \in DOMAIN masks : masks[i].register = reg_idx})]
         IN (dword \cap mask.mask) \cup mask.value

\* write_config_register(reg_idx, offset, data): the sentinel sets
\* about_to_read_size, every other write to a BAR or ROM register is dropped,
\* a write to another register goes to the device's config region
WriteConfigRegister(reg_idx, data) ==
    /\ ~crashed
    /\ bar_infos' =
         IF IsBarReg(reg_idx) /\ LooksLikeRequestToRead(data)
         THEN [i \in DOMAIN bar_infos |->
                  IF Targets(bar_infos[i], reg_idx - 4)
                  THEN [bar_infos[i] EXCEPT !.about_to_read_size = TRUE]
                  ELSE bar_infos[i]]
         ELSE bar_infos
    /\ expansion_rom_info' =
         IF reg_idx = 12 /\ expansion_rom_info # <<>> /\ LooksLikeRequestToRead(data)
         THEN [expansion_rom_info EXCEPT ![1].about_to_read_size = TRUE]
         ELSE expansion_rom_info
    /\ \E ok \in BOOLEAN :
         /\ ~ok => ~(IsBarReg(reg_idx) \/ reg_idx = 12)
         /\ crashed' = ~ok
    /\ sizing_pending' = IF LooksLikeRequestToRead(data)
                         THEN sizing_pending \cup {reg_idx}
                         ELSE sizing_pending \ {reg_idx}
    /\ config_last' = [op |-> "write", reg_idx |-> reg_idx, len |-> data.len,
                       value |-> data.value, ret |-> {},
                       pending |-> reg_idx \in sizing_pending,
                       forwards |-> IF IsBarReg(reg_idx) \/ reg_idx = 12 THEN 0 ELSE 1,
                       config_offset |-> reg_idx * 4, dword |-> {}]
    /\ UNCHANGED <<pio_locations, pio_devices, pio_devices_vtable, mmio_devices,
                   mmio_devices_vtable, accepted, last, threadVars, virtioVars, ioVars, walkVars,
                   attachVars, masks, msix_cap, bar_hole_infos, mmio_last>>

\* read_config_register(reg_idx): BAR and ROM registers are answered from
\* bar_infos and expansion_rom_info, every other register by the device
ReadConfigRegister(reg_idx) ==
    /\ ~crashed
    /\ \E ok \in BOOLEAN, dword \in DeviceDwords :
         /\ ~ok => ~(IsBarReg(reg_idx) \/ reg_idx = 12)
         /\ crashed' = ~ok
         /\ config_last' =
              [op |-> "read", reg_idx |-> reg_idx, len |-> 4, value |-> {},
               ret |-> IF IsBarReg(reg_idx) THEN BarRegisters(1, reg_idx - 4, {})
                       ELSE IF reg_idx = 12 THEN RomRegister
                       ELSE IF ok THEN Masked(reg_idx, dword) ELSE {},
               pending |-> reg_idx \in sizing_pending,
               forwards |-> IF IsBarReg(reg_idx) \/ reg_idx = 12 THEN 0 ELSE 1,
               config_offset |-> reg_idx * 4,
               dword |-> IF IsBarReg(reg_idx) \/ reg_idx = 12 \/ ~ok THEN {} ELSE dword]
    /\ sizing_pending' = sizing_pending \ {reg_idx}
    /\ UNCHANGED <<pio_locations, pio_devices, pio_devices_vtable, mmio_devices,
                   mmio_devices_vtable, accepted, last, threadVars, virtioVars, ioVars, walkVars,
                   attachVars, bar_infos, expansion_rom_info, masks, msix_cap,
                   bar_hole_infos, mmio_last>>

(***************************************************************************)
(* The trapped pages of the BARs: MsixCap, the holes that mmap_bars        *)
(* records, and BusDevice for VfioDeviceBundle.                            *)
(***************************************************************************)
MsixCap(msg_ctl, table_offset, pba_offset) ==
    [msg_ctl |-> msg_ctl, table_offset |-> table_offset, pba_offset |-> pba_offset]

\* x & 0xffff_fff8 and x & 0x7
table_offset(cap) == cap.table_offset - (cap.table_offset % 8)
pba_offset(cap) == cap.pba_offset - (cap.pba_offset % 8)
table_bir(cap) == cap.table_offset % 8
pba_bir(cap) == cap.pba_offset % 8
\* a table size taken from the whole message control register
TableSizeOfMsgCtl(cap) == cap.msg_ctl + 1
\* (msg_ctl & 0x7ff) + 1
table_size(cap) == (cap.msg_ctl % 2048) + 1
\* (offset, size) of the table, 16 bytes per entry
table_range(cap) == <<table_offset(cap), table_size(cap) * 16>>
\* (offset, size) of the PBA, 1 bit per entry in units of 8 bytes
pba_range(cap) == <<pba_offset(cap), ((table_size(cap) \div 64) + 1) * 8>>

align_page_size_down(v) == v - (v % 4096)
align_page_size_up(v) == align_page_size_down(v + 4096)

\* the region_info.index of the region that mmap_bars takes for a BAR
RegionIndex(infos, bar_info) == infos[bar_info.idx + 1]

\* mmap_bars, the holes of one BAR: the Table hole is recorded in the BAR
\* that pba_bir names and the Pba hole in the BAR that table_bir names; the
\* offset_in_hole of the Pba hole is taken from msix_table_offset
HolesOfBar(infos, bar_info, cap) ==
    LET contain_msix_table == RegionIndex(infos, bar_info) = pba_bir(cap)
        contain_msix_pba == RegionIndex(infos, bar_info) = table_bir(cap)
        msix_table_offset == IF contain_msix_table
                             THEN align_page_size_down(table_range(cap)[1]) ELSE 0
        msix_pba_offset == align_page_size_down(pba_range(cap)[1])
    IN (IF contain_msix_table
        THEN <<[gpa |-> Add64(bar_info.gpa, BitsOf(msix_table_offset)),
                size |-> align_page_size_up(table_range(cap)[2]),
                offset_in_hole |-> table_range(cap)[1] - msix_table_offset,
                usage |-> "Table"]>>
        ELSE <<>>) \o
       (IF contain_msix_pba
        THEN <<[gpa |-> Add64(bar_info.gpa, BitsOf(msix_pba_offset)),
                size |-> align_page_size_up(pba_range(cap)[2]),
                offset_in_hole |-> pba_range(cap)[1] - msix_table_offset,
                usage |-> "Pba"]>>
        ELSE <<>>)

\* mmap_bars: the holes of every BAR, in the order of bar_infos
RECURSIVE MmapBarsHoles(_, _, _, _)
MmapBarsHoles(infos, bars, cap, i) ==
    IF i > Len(bars) \/ cap = <<>> THEN <<>>
    ELSE HolesOfBar(infos, bars[i], cap[1]) \o MmapBarsHoles(infos, bars, cap, i + 1)

\* the devices with MSI-X of the model: BAR0 64-bit, 0x4000 bytes at
\* 0x40_0000_4000, BAR2 32-bit, 0x4000 bytes at 0xC000_4000, a table of 8
\* entries, and
\*  1. table at BAR2 + 0x1000, PBA at BAR2 + 0x2000
\*  2. table at BAR2 + 0, PBA at BAR2 + 0x800, in one page
\*  3. table at BAR2 + 0x1000, PBA at BAR0 + 0x2000
MsixBundles ==
    { [bar_infos |-> <<BarInfo(0, {38, 14}, {14}, TRUE, FALSE),
                       BarInfo(2, {31, 30, 14}, {14}, FALSE, FALSE)>>,
       cap |-> <<cap>>] :
      cap \in {MsixCap(7, 4098, 8194), MsixCap(7, 2, 2050), MsixCap(7, 4098, 8192)} }

\* a complete region list: region_infos[i].index is i
AllRegions == Enumerated(9, {})

MsixInitOf(b) ==
    /\ bar_infos = b.bar_infos
    /\ msix_cap = b.cap
    /\ bar_hole_infos = MmapBarsHoles(AllRegions, b.bar_infos, b.cap, 1)
    /\ mmio_last = NoMmio

\* the offsets in a trapped page that the guest accesses
MmioOffsets == {0, 16, 127, 128, 2048, 2056, 4092}
MmioLens == {4, 8}

\* the handler that serves a hole
Handler(op, usage) ==
    CASE op = "read" /\ usage = "Table" -> "read_table"
      [] op = "read" /\ usage = "Pba" -> "read_pba"
      [] op = "write" /\ usage = "Table" -> "write_table"
      [] op = "write" /\ usage = "Pba" -> "write_pba"

\* the VfioRegionInfo of the region index as the kernel reports it for a PCI
\* device: the region of a BAR has the size of the BAR and lies in the
\* device file at index << 40
VfioRegionInfo(index) ==
    LET bars == {i \in DOMAIN bar_infos : bar_infos[i].idx = index}
    IN [index |-> index,
        offset |-> Shl64(BitsOf(index), 40),
        size |-> IF bars = {} THEN {} ELSE bar_infos[CHOOSE i \in bars : TRUE].size]

\* vfio_device_region_read / vfio_device_region_write of buf_size bytes at
\* offset of the region index: the bytes are transferred at the file offset
\* region_info.offset + offset, an access beyond the region panics
VfioDeviceRegionAccess(op, index, offset, buf_size) ==
    LET region_info == VfioRegionInfo(index)
    IN [handler |-> "vfio_device_region_" \o op, region |-> index, offset |-> offset,
        file_offset |-> Add64(region_info.offset, offset),
        in_bounds |-> Leq64(Add64(offset, BitsOf(buf_size)), region_info.size)]

\* the loop of read and write over bar_hole_infos, from entry i: every hole
\* at base either serves the access or forwards it to its region of the
\* device, with region_info.offset + offset as the offset in the region
RECURSIVE Dispatch(_, _, _, _, _)
Dispatch(op, base, offset, len, i) ==
    IF i > Len(bar_hole_infos) THEN <<>>
    ELSE LET info == bar_hole_infos[i]
             region_index == IF info.usage = "Table" THEN table_bir(msix_cap[1])
                             ELSE pba_bir(msix_cap[1])
         IN (IF info.gpa = base
             THEN IF info.offset_in_hole <= offset
                     /\ offset < info.offset_in_hole + info.size
                  THEN <<[handler |-> Handler(op, info.usage), region |-> 0,
                          offset |-> BitsOf(offset), file_offset |-> {},
                          in_bounds |-> TRUE]>>
                  ELSE <<VfioDeviceRegionAccess(op, region_index,
                             Add64(VfioRegionInfo(region_index).offset, BitsOf(offset)),
                             len)>>
             ELSE <<>>) \o Dispatch(op, base, offset, len, i + 1)

\* the calls made until the first one that panics
RECURSIVE Executed(_, _)
Executed(calls, i) ==
    IF i > Len(calls) THEN <<>>
    ELSE IF ~calls[i].in_bounds THEN <<calls[i]>>
    ELSE <<calls[i]>> \o Executed(calls, i + 1)

Forwarded(calls) ==
    {i \in DOMAIN calls : calls[i].handler \in {"vfio_device_region_read",
                                                "vfio_device_region_write"}}

\* BusDevice::read / write of the bundle, called by the bus with the base of
\* a trapped range (the gpa of a recorded hole) and the offset in it; an
\* access beyond the region and a failed access to the device file panic
MmioAccess(op, base, offset, len) ==
    LET calls == Executed(Dispatch(op, base, offset, len, 1), 1)
    IN /\ \E ok \in BOOLEAN :
            /\ ~ok => Forwarded(calls) # {}
            /\ ok => \A i \in DOMAIN calls : calls[i].in_bounds
            /\ crashed' = ~ok
       /\ mmio_last' = [op |-> op, base |-> base, offset |-> offset, len |-> len,
                        calls |-> calls]
       /\ UNCHANGED <<pio_locations, pio_devices, pio_devices_vtable, mmio_devices,
                      mmio_devices_vtable, accepted, last, threadVars, virtioVars, ioVars, walkVars,
                      attachVars, bar_infos, expansion_rom_info, masks, sizing_pending,
                      config_last, msix_cap, bar_hole_infos>>

\* BusDevice::read
BundleRead(hole, offset, len) ==
    /\ ~crashed
    /\ MmioAccess("read", bar_hole_infos[hole].gpa, offset, len)

\* BusDevice::write
BundleWrite(hole, offset, len) ==
    /\ ~crashed
    /\ MmioAccess("write", bar_hole_infos[hole].gpa, offset, len)

(***************************************************************************)
(* Sizing of the BARs and of the expansion ROM: device_get_bar_infos and   *)
(* device_get_expansion_rom_info (src/vmm/src/vfio/mod.rs).                *)
(***************************************************************************)
\* x + 1 and !x + 1 on u64 and on u32; the addition overflows when every bit
\* of !x is set
Neg64(x) == Add64(Not64(x), {0})
Neg32(x) == Trunc32(Add64(Trunc32(Not64(x)), {0}))
Overflows(x) == x = {}

\* a BAR register of the device: the dword it holds and the dword read back
\* after 0xFFFF_FFFF was written to it
NoBar == [value |-> {}, readback |-> {}]
\* a 32-bit memory BAR of size bytes
Mem32(size, prefetchable) ==
    LET type == IF prefetchable THEN {3} ELSE {}
    IN [value |-> type, readback |-> (Trunc32(Not64(Dec64(size))) \ (0..3)) \cup type]
\* the two registers of a 64-bit memory BAR of size bytes
Mem64Low(size, prefetchable) ==
    LET type == {2} \cup (IF prefetchable THEN {3} ELSE {})
    IN [value |-> type, readback |-> (Trunc32(Not64(Dec64(size))) \ (0..3)) \cup type]
Mem64High(size) == [value |-> {}, readback |-> Shr(Not64(Dec64(size)), 32)]
\* an I/O BAR of size bytes: 16 address bits
IoBar(size) == [value |-> {0}, readback |-> (Not64(Dec64(size)) \cap (2..15)) \cup {0}]

\* an expansion ROM register: enabled with validation bits, of size bytes
RomReg(size, low_bits) ==
    [value |-> low_bits, readback |-> (Trunc32(Not64(Dec64(size))) \ (0..10)) \cup {0}]
NoRom == [value |-> {}, readback |-> {}]

\* resource_allocator.mmio32_memory / mmio64_memory.allocate(size, 64,
\* FirstMatch) on an allocator whose next free address is cursor: the first
\* address aligned to 64 bytes
Allocate(cursor, size) ==
    LET start == Add64(cursor, 0..5) \ (0..5)
    IN [start |-> start, cursor |-> Add64(start, size)]

\* the allocators before the device is attached
FreshAllocator == [mmio32_memory |-> {31, 30, 28}, mmio64_memory |-> {38}]

\* the size that device_get_bar_infos computes for the BAR at bar_idx
\* combined as the lower register only
BarSizeOfLower(regs, bar_idx) ==
    LET lower_size == regs[bar_idx].readback
    IN [size |-> IF lower_size # {} THEN Neg32(lower_size \ (0..3)) ELSE {},
        overflow |-> lower_size # {} /\ Overflows(lower_size \ (0..3))]

\* the size that device_get_bar_infos computes for the BAR at bar_idx, and
\* whether !x + 1 overflowed on the way
BarSize(regs, bar_idx) ==
    LET bar_info == regs[bar_idx].value
        is_io_bar == 0 \in bar_info
        is_64_bits == 2 \in bar_info
        lower_size == regs[bar_idx].readback
        upper_size == IF bar_idx + 1 \in DOMAIN regs THEN regs[bar_idx + 1].readback
                      ELSE {}
        combined == (Shl64(upper_size, 32) \cup lower_size) \ (0..3)
    IN IF is_io_bar
       THEN [size |-> IF lower_size # {} THEN Neg32(lower_size \ (0..1)) ELSE {},
             overflow |-> lower_size # {} /\ Overflows(lower_size \ (0..1))]
       ELSE IF ~is_64_bits
       THEN [size |-> IF lower_size # {} THEN Neg32(lower_size \ (0..3)) ELSE {},
             overflow |-> lower_size # {} /\ Overflows(lower_size \ (0..3))]
       ELSE [size |-> Neg64(combined), overflow |-> Overflows(combined)]

\* device_get_bar_infos from bar_idx on: acc holds the BarInfos pushed so
\* far, the allocators, the allocate calls and whether an addition
\* overflowed; an I/O BAR is skipped, a 64-bit BAR takes two registers
RECURSIVE device_get_bar_infos(_, _, _)
device_get_bar_infos(regs, bar_idx, acc) ==
    IF bar_idx > 5 THEN acc
    ELSE LET bar_info == regs[bar_idx].value
             is_io_bar == 0 \in bar_info
             is_64_bits == 2 \in bar_info
             is_prefetchable == 3 \in bar_info
             sized == BarSize(regs, bar_idx)
             pool == IF is_64_bits THEN "mmio64_memory" ELSE "mmio32_memory"
             range == Allocate(acc.allocator[pool], sized.size)
         IN IF sized.size = {} \/ is_io_bar
            THEN device_get_bar_infos(regs, bar_idx + 1,
                     [acc EXCEPT !.overflow = @ \/ sized.overflow])
            ELSE device_get_bar_infos(regs, IF is_64_bits THEN bar_idx + 2 ELSE bar_idx + 1,
                     [bar_infos |-> Append(acc.bar_infos,
                                       [idx |-> bar_idx, gpa |-> range.start,
                                        size |-> sized.size, is_64_bits |-> is_64_bits,
                                        is_prefetchable |-> is_prefetchable,
                                        about_to_read_size |-> FALSE]),
                      allocator |-> [acc.allocator EXCEPT ![pool] = range.cursor],
                      calls |-> Append(acc.calls, [call |-> pool \o ".allocate",
                                                   bar |-> bar_idx, size |-> sized.size]),
                      overflow |-> acc.overflow \/ sized.overflow])

\* device_get_expansion_rom_info: the ROM is sized when bit 0 of its
\* register is set, and its size is taken as rom_size & !0xFFF
device_get_expansion_rom_info(rom, allocator) ==
    IF 0 \in rom.value
    THEN LET size == Trunc32(rom.readback) \ (0..11)
             range == Allocate(allocator.mmio32_memory, size)
         IN [rom |-> <<[gpa |-> range.start, size |-> size,
                        extra |-> rom.value \cap (0..11), about_to_read_size |-> FALSE]>>,
             calls |-> <<[call |-> "mmio32_memory.allocate", bar |-> 12, size |-> size]>>]
    ELSE [rom |-> <<>>, calls |-> <<>>]

\* the BARs of the devices of the model, as (register, kind, size,
\* prefetchable):
\*  1. BAR0 64-bit of 0x4000 bytes, BAR2 32-bit prefetchable of 0x4000 bytes
\*  2. BAR0 64-bit prefetchable of 0x2_0000_0000 bytes, BAR2 I/O of 0x20
\*     bytes, BAR3 32-bit of 0x4000 bytes
\*  3. BAR0 32-bit of 16 bytes, BAR1 32-bit of 0x8000_0000 bytes, BAR4 64-bit
\*     of 0x1000_0000 bytes
\*  4. BAR5 32-bit prefetchable of 0x1000 bytes
\*  5. no BAR
BarLayouts ==
    { <<[idx |-> 0, kind |-> "mem64", size |-> {14}, prefetchable |-> FALSE],
        [idx |-> 2, kind |-> "mem32", size |-> {14}, prefetchable |-> TRUE]>>,
      <<[idx |-> 0, kind |-> "mem64", size |-> {33}, prefetchable |-> TRUE],
        [idx |-> 2, kind |-> "io", size |-> {5}, prefetchable |-> FALSE],
        [idx |-> 3, kind |-> "mem32", size |-> {14}, prefetchable |-> FALSE]>>,
      <<[idx |-> 0, kind |-> "mem32", size |-> {4}, prefetchable |-> FALSE],
        [idx |-> 1, kind |-> "mem32", size |-> {31}, prefetchable |-> FALSE],
        [idx |-> 4, kind |-> "mem64", size |-> {28}, prefetchable |-> FALSE]>>,
      <<[idx |-> 5, kind |-> "mem32", size |-> {12}, prefetchable |-> TRUE]>>,
      <<>> }

\* the six BAR registers of a device with the BARs of layout
BarRegsOf(layout) ==
    [r \in 0..5 |->
        IF \E k \in DOMAIN layout : layout[k].idx = r
        THEN LET bar == layout[CHOOSE k \in DOMAIN layout : layout[k].idx = r]
             IN CASE bar.kind = "mem32" -> Mem32(bar.size, bar.prefetchable)
                  [] bar.kind = "mem64" -> Mem64Low(bar.size, bar.prefetchable)
                  [] bar.kind = "io" -> IoBar(bar.size)
        ELSE IF \E k \in DOMAIN layout : layout[k].idx = r - 1 /\ layout[k].kind = "mem64"
        THEN Mem64High(layout[CHOOSE k \in DOMAIN layout : layout[k].idx = r - 1].size)
        ELSE NoBar]

\* the expansion ROM registers of the model: none, a disabled ROM, and an
\* enabled ROM of 0x1_0000 bytes
RomRegs == {NoRom, [value |-> {}, readback |-> 16..31], RomReg({16}, {0})}

\* the allocators when the device is attached: fresh, or with other
\* devices' ranges taken
Allocators == {FreshAllocator, [mmio32_memory |-> {31, 30, 28, 4}, mmio64_memory |-> {38, 12}]}

\* the devices whose BARs and ROM are sized
SizedDevices ==
    {[layout |-> layout, bars |-> BarRegsOf(layout), rom |-> rom, allocator |-> allocator] :
        layout \in BarLayouts, rom \in RomRegs, allocator \in Allocators}

\* what device_get_bar_infos returns for the device
SizedBars(device) ==
    device_get_bar_infos(device.bars, 0,
        [bar_infos |-> <<>>, allocator |-> device.allocator, calls |-> <<>>,
         overflow |-> FALSE])

SizingFrame ==
    UNCHANGED <<pio_locations, pio_devices, pio_devices_vtable, mmio_devices,
                mmio_devices_vtable, accepted, last, threadVars, virtioVars, ioVars, walkVars,
                attach_input, container_groups, iommu_type, region_infos, kvm_slots,
                dma_maps, masks, sizing_pending, config_last, msix_cap, bar_hole_infos,
                mmio_last>>

\* device_get_bar_infos on the device: a failed access to the config region
\* panics, and so does an overflowing !x + 1 in a build that checks it
SizeBars ==
    /\ ~crashed
    /\ attach_pc = "device_get_bar_infos"
    /\ \E ok \in BOOLEAN :
         /\ crashed' = ~ok
         /\ attach_pc' = IF ok THEN "device_get_expansion_rom_info" ELSE "panicked"
         /\ bar_infos' = IF ok THEN SizedBars(attach_input).bar_infos ELSE bar_infos
         /\ attach_trace' = IF ok THEN attach_trace \o SizedBars(attach_input).calls
                            ELSE attach_trace
    /\ UNCHANGED expansion_rom_info
    /\ SizingFrame

\* device_get_expansion_rom_info on the device, with the allocator as
\* device_get_bar_infos left it
SizeExpansionRom ==
    /\ ~crashed
    /\ attach_pc = "device_get_expansion_rom_info"
    /\ \E ok \in BOOLEAN :
         LET r == device_get_expansion_rom_info(attach_input.rom,
                                                SizedBars(attach_input).allocator)
         IN /\ crashed' = ~ok
            /\ attach_pc' = IF ok THEN "sized" ELSE "panicked"
            /\ expansion_rom_info' = IF ok THEN r.rom ELSE expansion_rom_info
            /\ attach_trace' = IF ok THEN attach_trace \o r.calls ELSE attach_trace
    /\ UNCHANGED bar_infos
    /\ SizingFrame

(***************************************************************************)
(* mmap_bars: the areas of the BARs that are mapped into the guest and the *)
(* holes that stay trapped (src/vmm/src/vfio/mod.rs).  Offsets and sizes   *)
(* inside a BAR are numbers; a difference below 0 is a u64 subtraction     *)
(* that underflowed.                                                       *)
(***************************************************************************)
\* the areas that mmap_bars computes for an MsixMappable region around its
\* two gaps, each gap an (offset, size) pair
AreasAroundGaps(table_gap, pba_gap, region_size) ==
    LET swap == pba_gap[1] < table_gap[1]
        first_gap == IF swap THEN pba_gap ELSE table_gap
        second_gap == IF swap THEN table_gap ELSE pba_gap
        offset1 == IF first_gap[2] # 0 THEN first_gap[1] + first_gap[2] ELSE 0
        offset2 == IF second_gap[2] # 0 THEN second_gap[1] + second_gap[2] ELSE offset1
    IN (IF first_gap[2] # 0 /\ first_gap[1] # 0
        THEN <<[offset |-> 0, size |-> first_gap[1]]>> ELSE <<>>)
       \o (IF second_gap[2] # 0 /\ second_gap[1] - offset1 # 0
           THEN <<[offset |-> offset1, size |-> second_gap[1] - offset1]>> ELSE <<>>)
       \o (IF region_size - offset2 # 0
           THEN <<[offset |-> offset2, size |-> region_size - offset2]>> ELSE <<>>)

\* mmap_bars, the areas of one BAR whose region is region_info: none when
\* the BAR holds the table or the PBA and the region is neither MsixMappable
\* nor sparse, or when it cannot be mmapped
AreasOfBar(region_info, bar_info, cap) ==
    LET contain_msix_table == cap # <<>> /\ region_info.index = pba_bir(cap[1])
        contain_msix_pba == cap # <<>> /\ region_info.index = table_bir(cap[1])
        table_gap == IF contain_msix_table
                     THEN <<align_page_size_down(table_range(cap[1])[1]),
                            align_page_size_up(table_range(cap[1])[2])>>
                     ELSE <<0, 0>>
        pba_gap == IF contain_msix_pba
                   THEN <<align_page_size_down(pba_range(cap[1])[1]),
                          align_page_size_up(pba_range(cap[1])[2])>>
                   ELSE <<0, 0>>
    IN IF (contain_msix_table \/ contain_msix_pba)
          /\ ~region_info.msix_mappable /\ region_info.sparse_mmap = <<>>
       THEN <<>>
       ELSE IF ~(region_info.can_mmap \/ region_info.sparse_mmap # <<>>) THEN <<>>
       ELSE IF region_info.sparse_mmap # <<>> THEN region_info.sparse_mmap[1]
       ELSE IF region_info.msix_mappable
       THEN AreasAroundGaps(table_gap, pba_gap, region_info.size)
       ELSE <<[offset |-> 0, size |-> region_info.size]>>

\* mmap_bars: the areas of every BAR in the order of bar_infos, each with
\* its BAR and the guest address bar_info.gpa + area.offset of its KVM slot
RECURSIVE MmapBarsAreas(_, _, _, _)
MmapBarsAreas(regions, bars, cap, i) ==
    IF i > Len(bars) THEN <<>>
    ELSE LET areas == AreasOfBar(regions[bars[i].idx + 1], bars[i], cap)
         IN [k \in DOMAIN areas |->
                [bar |-> bars[i].idx, offset |-> areas[k].offset, size |-> areas[k].size,
                 guest_phys_addr |-> IF areas[k].offset >= 0
                                     THEN Add64(bars[i].gpa, BitsOf(areas[k].offset))
                                     ELSE {}]]
            \o MmapBarsAreas(regions, bars, cap, i + 1)

\* a VfioRegionInfo with what mmap_bars reads of it: the FLAG_MMAP bit, the
\* MsixMappable capability and the areas of the SparseMmap capability
RegionInfo(index, size, can_mmap, msix_mappable, sparse_mmap) ==
    [index |-> index, size |-> size, can_mmap |-> can_mmap,
     msix_mappable |-> msix_mappable, sparse_mmap |-> sparse_mmap]

\* the BARs of the devices that mmap_bars runs on: BAR0 64-bit, 0x4000 bytes
\* at 0x40_0000_4000 and BAR2 32-bit, 0x1_0000 bytes at 0xC001_0000
MapBars ==
    <<BarInfo(0, {38, 14}, {14}, TRUE, FALSE), BarInfo(2, {31, 30, 16}, {16}, FALSE, FALSE)>>

MapBarSize(index) == IF index = 0 THEN 16384 ELSE IF index = 2 THEN 65536 ELSE 0

\* the MSI-X capabilities of these devices: none, or
\*  1. 8 entries, table at BAR2 + 0x1000, PBA at BAR2 + 0x2000
\*  2. 8 entries, table at BAR2 + 0, PBA at BAR2 + 0x800, in one page
\*  3. 8 entries, table at BAR2 + 0x1000, PBA at BAR0 + 0x2000
\*  4. 8 entries, table at BAR2 + 0x2000, PBA at BAR2 + 0x1000
\*  5. 256 entries, table in the last page of BAR2, PBA at BAR2 + 0
\*  6. 2048 entries, table at BAR2 + 0, PBA at BAR2 + 0x8000
\*  7. 8 entries, table at BAR0 + 0, PBA at BAR2 + 0x3000
\*  8. 3 entries, table at BAR2 + 0xff0, over two pages, PBA at BAR2 + 0x4000
MapCaps ==
    {<<>>, <<MsixCap(7, 4098, 8194)>>, <<MsixCap(7, 2, 2050)>>, <<MsixCap(7, 4098, 8192)>>,
     <<MsixCap(7, 8194, 4098)>>, <<MsixCap(255, 61442, 2)>>, <<MsixCap(2047, 2, 32770)>>,
     <<MsixCap(7, 0, 12290)>>, <<MsixCap(2, 4082, 16386)>>}

\* the pages of the table inside its BAR, as the kernel leaves them out of
\* the SparseMmap areas of that BAR
SparseAreasAround(range, region_size) ==
    LET start == align_page_size_down(range[1])
        end == align_page_size_down(range[1] + range[2] + 4095)
    IN (IF start > 0 THEN <<[offset |-> 0, size |-> start]>> ELSE <<>>)
       \o (IF end < region_size THEN <<[offset |-> end, size |-> region_size - end]>>
           ELSE <<>>)

\* what the kernel reports of the regions: "none" no region can be mmapped;
\* "msix_mappable" every BAR can, and the BAR of the table says so with the
\* MsixMappable capability; "sparse_mmap" every BAR can, and the BAR of the
\* table has the SparseMmap capability for the areas around the table
MapKernels == {"none", "msix_mappable", "sparse_mmap"}

MapRegions(cap, kernel) ==
    [i \in 1..9 |->
        LET has_table == cap # <<>> /\ table_bir(cap[1]) = i - 1
        IN RegionInfo(i - 1, MapBarSize(i - 1), kernel # "none",
                      kernel = "msix_mappable" /\ has_table,
                      IF kernel = "sparse_mmap" /\ has_table
                      THEN <<SparseAreasAround(table_range(cap[1]), MapBarSize(i - 1))>>
                      ELSE <<>>)]

\* a device names in its MSI-X capability BARs that it has
MapDevices ==
    {d \in {[bar_infos |-> bars, cap |-> cap, regions |-> MapRegions(cap, kernel)] :
               bars \in {MapBars, SubSeq(MapBars, 2, 2)}, cap \in MapCaps,
               kernel \in MapKernels} :
        d.cap # <<>> =>
            \A bir \in {table_bir(d.cap[1]), pba_bir(d.cap[1])} :
                \E i \in DOMAIN d.bar_infos : d.bar_infos[i].idx = bir}

\* the positions in bar_infos of the BARs where a subtraction of mmap_bars
\* goes below 0: the offset_in_hole of the Pba hole, or the size of an area
Underflows(device) ==
    {i \in DOMAIN device.bar_infos :
        \/ /\ device.cap # <<>>
           /\ \E h \in DOMAIN HolesOfBar(AllRegions, device.bar_infos[i], device.cap[1]) :
                 HolesOfBar(AllRegions, device.bar_infos[i],
                            device.cap[1])[h].offset_in_hole < 0
        \/ \E a \in DOMAIN AreasOfBar(device.regions[device.bar_infos[i].idx + 1],
                                      device.bar_infos[i], device.cap) :
              AreasOfBar(device.regions[device.bar_infos[i].idx + 1],
                         device.bar_infos[i], device.cap)[a].size < 0}

\* how mmap_bars can end on the device: slots areas have their KVM slot,
\* maps of them their IOMMU map.  It returns when every area is mapped; it
\* panics where mmap, next_kvm_slot, KVM_SET_USER_MEMORY_REGION or
\* VFIO_IOMMU_MAP_DMA fails, where a build with overflow checks meets a
\* subtraction below 0, and where the mmap of an area of a wrapped size fails
MapOutcomes(device) ==
    LET areas == MmapBarsAreas(device.regions, device.bar_infos, device.cap, 1)
        negative == {k \in DOMAIN areas : areas[k].size < 0}
        limit == IF negative = {} THEN Len(areas)
                 ELSE (CHOOSE k \in negative : \A j \in negative : k <= j) - 1
        under == Underflows(device)
        first == CHOOSE i \in under : \A j \in under : i <= j
        before == Cardinality({k \in DOMAIN areas :
                     \E i \in 1..(first - 1) : device.bar_infos[i].idx = areas[k].bar})
    IN (IF negative = {} THEN {[ok |-> TRUE, slots |-> Len(areas), maps |-> Len(areas)]}
        ELSE {[ok |-> FALSE, slots |-> limit, maps |-> limit]})
       \cup {[ok |-> FALSE, slots |-> k - 1, maps |-> k - 1] : k \in 1..limit}
       \cup {[ok |-> FALSE, slots |-> k, maps |-> k - 1] : k \in 1..limit}
       \cup (IF under = {} THEN {}
             ELSE {[ok |-> FALSE, slots |-> before, maps |-> before]})

\* the KVM memory slot and the IOMMU map of an area
KvmSlotOf(area) ==
    [bar |-> area.bar, offset |-> area.offset,
     guest_phys_addr |-> area.guest_phys_addr, memory_size |-> area.size]
BarDmaMapOf(area) ==
    [bar |-> area.bar, iova |-> area.guest_phys_addr, size |-> area.size,
     flags |-> {"VFIO_DMA_MAP_FLAG_READ", "VFIO_DMA_MAP_FLAG_WRITE"}]

MapFrame ==
    UNCHANGED <<pio_locations, pio_devices, pio_devices_vtable, mmio_devices,
                mmio_devices_vtable, accepted, last, threadVars, virtioVars, ioVars, walkVars,
                attach_input, attach_trace, container_groups, iommu_type, region_infos,
                bar_infos, expansion_rom_info, masks, sizing_pending, config_last,
                msix_cap, mmio_last>>

\* mmap_bars on the device
MmapBars ==
    /\ ~crashed
    /\ attach_pc = "mmap_bars"
    /\ \E out \in MapOutcomes(attach_input) :
         LET areas == MmapBarsAreas(attach_input.regions, bar_infos, msix_cap, 1)
         IN /\ kvm_slots' = {KvmSlotOf(areas[k]) : k \in 1..out.slots}
            /\ dma_maps' = {BarDmaMapOf(areas[k]) : k \in 1..out.maps}
            /\ bar_hole_infos' = IF out.ok
                                 THEN MmapBarsHoles(AllRegions, bar_infos, msix_cap, 1)
                                 ELSE bar_hole_infos
            /\ crashed' = ~out.ok
            /\ attach_pc' = IF out.ok THEN AfterStep("mmap_bars") ELSE "panicked"
    /\ MapFrame

(***************************************************************************)
(* The walks of the capability chains (src/vmm/src/vfio/mod.rs): the chain *)
(* of a region's VFIO capabilities in vfio_device_get_region_infos, the    *)
(* chain of PCI capabilities in get_device and in                          *)
(* vfio_device_get_pci_capabilities, and the chain of extended             *)
(* capabilities.  A step of a walk is one iteration of its loop.           *)
(***************************************************************************)
\* the Vec that a walk pushes to has at most MaxCaps elements: a push to a
\* full one is the allocation that aborts the process
MaxCaps == 3

CapHeader(id, next) == [id |-> id, next |-> next]

\* the PCI capability chains of the devices: the byte at 0x34 and the
\* (id, next) bytes of the capabilities at 0x40, 0x50, 0x60 and 0x70
\*  1. no capability
\*  2. PowerManagement, MSI, MSI-X, PciExpress
\*  3. MSI-X, PciExpress
\*  4. PowerManagement, MSI-X, then back to the first
\*  5. a vendor capability that points to itself
PciChains ==
    {[cap_ptr |-> 0,
      caps |-> [o \in {64, 80, 96, 112} |-> CapHeader("Null", 0)]],
     [cap_ptr |-> 64,
      caps |-> (64 :> CapHeader("PowerManagement", 80)
                @@ 80 :> CapHeader("MessageSignalledInterrupts", 96)
                @@ 96 :> CapHeader("MsiX", 112) @@ 112 :> CapHeader("PciExpress", 0))],
     [cap_ptr |-> 96,
      caps |-> (64 :> CapHeader("Null", 0) @@ 80 :> CapHeader("Null", 0)
                @@ 96 :> CapHeader("MsiX", 112) @@ 112 :> CapHeader("PciExpress", 0))],
     [cap_ptr |-> 64,
      caps |-> (64 :> CapHeader("PowerManagement", 80) @@ 80 :> CapHeader("MsiX", 64)
                @@ 96 :> CapHeader("Null", 0) @@ 112 :> CapHeader("Null", 0))],
     [cap_ptr |-> 64,
      caps |-> (64 :> CapHeader("VendorSpecific", 64) @@ 80 :> CapHeader("Null", 0)
                @@ 96 :> CapHeader("Null", 0) @@ 112 :> CapHeader("Null", 0))]}

\* the extended capability chains: the (id, next) of the dwords at 0x100 and
\* 0x140; a device without extended capabilities reads 0 at 0x100
ExtChains ==
    {(256 :> CapHeader("Null", 0) @@ 320 :> CapHeader("Null", 0)),
     (256 :> CapHeader("AdvancedErrorReporting", 320)
      @@ 320 :> CapHeader("SingleRootIoVirtualization", 0)),
     (256 :> CapHeader("AlternativeRoutingIdentificationInterpretation", 320)
      @@ 320 :> CapHeader("ResizeableBar", 256)),
     (256 :> CapHeader("AdvancedErrorReporting", 256) @@ 320 :> CapHeader("Null", 0))}

\* the capability chains of a region: cap_offset and the headers at the
\* offsets 32 and 48 of a region info of argsz 64; flags_caps is FLAG_CAPS
RegionChains ==
    {[flags_caps |-> FALSE, cap_offset |-> 0,
      caps |-> (32 :> CapHeader("Null", 0) @@ 48 :> CapHeader("Null", 0))],
     [flags_caps |-> TRUE, cap_offset |-> 32,
      caps |-> (32 :> CapHeader("MsixMappable", 48) @@ 48 :> CapHeader("Type", 0))],
     [flags_caps |-> TRUE, cap_offset |-> 32,
      caps |-> (32 :> CapHeader("SparseMmap", 48) @@ 48 :> CapHeader("MsixMappable", 32))],
     [flags_caps |-> TRUE, cap_offset |-> 32,
      caps |-> (32 :> CapHeader("Unknown", 32) @@ 48 :> CapHeader("Null", 0))],
     [flags_caps |-> TRUE, cap_offset |-> 48,
      caps |-> (32 :> CapHeader("Null", 0) @@ 48 :> CapHeader("Type", 200))]}

\* the registers of the MSI-X capability: message control, table offset /
\* BIR and PBA offset / BIR
MsixRegisters ==
    {MsixCap(msg_ctl, table, pba) :
        msg_ctl \in {0, 7, 255, 2047, 2048, 34815, 49152, 65535},
        table \in {0, 2, 7, 4098, 61445, 2147483647},
        pba \in {0, 2050, 8196, 2147483643}}

\* what the device and the kernel answer during the walks
WalkDevices ==
    {[region |-> region, pci |-> pci, ext |-> ext, msix |-> msix, irqs |-> irqs] :
        region \in RegionChains, pci \in PciChains, ext \in ExtChains,
        msix \in {MsixCap(7, 4098, 8194)}, irqs \in {TRUE}}
    \cup {[region |-> CHOOSE r \in RegionChains : ~r.flags_caps,
           pci |-> CHOOSE c \in PciChains : c.cap_ptr = 96,
           ext |-> CHOOSE e \in ExtChains : e[256].id = "Null",
           msix |-> msix, irqs |-> irqs] :
            msix \in MsixRegisters, irqs \in BOOLEAN}

\* what the walks read and write, and the same after a panic
WalkState ==
    [pc |-> attach_pc, next |-> next_cap_offset, trace |-> attach_trace,
     regions |-> region_infos, msix_cap |-> msix_cap, msi_cap |-> msi_cap,
     found |-> found_caps, masks |-> masks, crashed |-> crashed]
Panicked == [WalkState EXCEPT !.pc = "panicked", !.crashed = TRUE]

WalkTo(st) ==
    /\ attach_pc' = st.pc
    /\ next_cap_offset' = st.next
    /\ attach_trace' = st.trace
    /\ region_infos' = st.regions
    /\ msix_cap' = st.msix_cap
    /\ msi_cap' = st.msi_cap
    /\ found_caps' = st.found
    /\ masks' = st.masks
    /\ crashed' = st.crashed
    /\ UNCHANGED <<pio_locations, pio_devices, pio_devices_vtable, mmio_devices,
                   mmio_devices_vtable, accepted, last, threadVars, virtioVars, ioVars,
                   attach_input, container_groups, iommu_type, kvm_slots, dma_maps,
                   bar_infos, expansion_rom_info, sizing_pending, config_last,
                   bar_hole_infos, mmio_last>>

\* vfio_device_get_region_infos, a region up to the loop over its
\* capabilities: without FLAG_CAPS there is no walk, with it the second
\* DEVICE_GET_REGION_INFO is unwrapped and the walk starts at cap_offset
RegionCapsStart ==
    /\ attach_pc = "vfio_device_get_region_infos"
    /\ \E ok \in BOOLEAN :
         WalkTo(IF ~attach_input.region.flags_caps
                THEN [WalkState EXCEPT !.pc = "region_capabilities", !.next = 0]
                ELSE IF ok
                THEN [WalkState EXCEPT !.pc = "region_capabilities",
                                       !.next = attach_input.region.cap_offset]
                ELSE Panicked)

\* the region capabilities that the walk pushes to caps
KnownRegionCaps == {"SparseMmap", "Type", "MsixMappable", "Nvlink2Ssatgt", "Nvlink2Lnkspd"}

\* one iteration of while region_info_struct_size <= next_cap_offset: the
\* slice from next_cap_offset panics outside the bytes of the region info
RegionCapsStep ==
    /\ attach_pc = "region_capabilities"
    /\ 32 <= next_cap_offset
    /\ WalkTo(IF next_cap_offset \notin DOMAIN attach_input.region.caps THEN Panicked
              ELSE LET cap_header == attach_input.region.caps[next_cap_offset]
                   IN IF cap_header.id \notin KnownRegionCaps
                      THEN [WalkState EXCEPT !.next = cap_header.next]
                      ELSE IF Len(attach_trace) = MaxCaps THEN Panicked
                      ELSE [WalkState EXCEPT
                               !.next = cap_header.next,
                               !.trace = Append(@, [call |-> "caps.push",
                                                    ok |-> TRUE, id |-> cap_header.id])])

\* the region is pushed, and get_device reads the capability pointer at
\* 0x34 for its walk
GetDeviceWalkStart ==
    /\ attach_pc = "region_capabilities"
    /\ next_cap_offset < 32
    /\ \E ok \in BOOLEAN :
         WalkTo(IF ok THEN [WalkState EXCEPT !.pc = "pci_cap_walk", !.regions = AllRegions,
                                             !.next = attach_input.pci.cap_ptr]
                ELSE Panicked)

\* get_device, one iteration of while pci_cap_offset != 0: the id is read
\* at pci_cap_offset and the next offset at pci_cap_offset + 1
GetDeviceWalkStep ==
    /\ attach_pc = "pci_cap_walk"
    /\ next_cap_offset # 0
    /\ \E ok \in BOOLEAN :
         WalkTo(IF ok
                THEN [WalkState EXCEPT !.next = attach_input.pci.caps[next_cap_offset].next]
                ELSE Panicked)

\* get_device returns; vfio_device_get_pci_capabilities reads the
\* capability pointer at 0x34
PciCapsStart ==
    /\ attach_pc = "pci_cap_walk"
    /\ next_cap_offset = 0
    /\ \E ok \in BOOLEAN :
         WalkTo(IF ok THEN [WalkState EXCEPT !.pc = "vfio_device_get_pci_capabilities",
                                             !.next = attach_input.pci.cap_ptr]
                ELSE Panicked)

\* vfio_device_get_pci_capabilities, one iteration of while
\* next_cap_offset != 0: id and next pointer are read at next_cap_offset; an
\* MSI or MSI-X capability is recorded when the device has such interrupts
PciCapsStep ==
    /\ attach_pc = "vfio_device_get_pci_capabilities"
    /\ next_cap_offset # 0
    /\ \E ok \in BOOLEAN :
         LET cap == attach_input.pci.caps[next_cap_offset]
         IN WalkTo(IF ~ok THEN Panicked
                   ELSE [WalkState EXCEPT
                            !.next = cap.next,
                            !.msi_cap = IF cap.id = "MessageSignalledInterrupts"
                                           /\ attach_input.irqs
                                        THEN <<[msg_ctl |-> 0]>> ELSE @,
                            !.msix_cap = IF cap.id = "MsiX" /\ attach_input.irqs
                                         THEN <<attach_input.msix>> ELSE @,
                            !.found = IF cap.id \in {"PciExpress", "PowerManagement"}
                                      THEN @ \cup {cap.id} ELSE @])

\* the extended capabilities are walked from 0x100 when the device has the
\* PciExpress and the PowerManagement capability; masks is None otherwise
ExtCapsStart ==
    /\ attach_pc = "vfio_device_get_pci_capabilities"
    /\ next_cap_offset = 0
    /\ WalkTo(IF found_caps = {"PciExpress", "PowerManagement"}
              THEN [WalkState EXCEPT !.pc = "extended_capabilities", !.next = 256]
              ELSE [WalkState EXCEPT !.pc = "walked"])

\* the extended capabilities whose register gets a mask
MaskedExtCaps ==
    {"AlternativeRoutingIdentificationInterpretation", "ResizeableBar",
     "SingleRootIoVirtualization"}

\* one iteration of the walk of the extended capabilities
ExtCapsStep ==
    /\ attach_pc = "extended_capabilities"
    /\ next_cap_offset # 0
    /\ \E ok \in BOOLEAN :
         LET cap == attach_input.ext[next_cap_offset]
         IN WalkTo(IF ~ok THEN Panicked
                   ELSE IF cap.id \notin MaskedExtCaps
                   THEN [WalkState EXCEPT !.next = cap.next]
                   ELSE IF Len(masks) = MaxCaps THEN Panicked
                   ELSE [WalkState EXCEPT
                            !.next = cap.next,
                            !.masks = Append(@, [register |-> next_cap_offset \div 4,
                                                 mask |-> 16..31, value |-> {}])])

\* vfio_device_get_pci_capabilities returns msi_cap, msix_cap and the masks
ExtCapsReturn ==
    /\ attach_pc = "extended_capabilities"
    /\ next_cap_offset = 0
    /\ WalkTo([WalkState EXCEPT !.pc = "walked"])

(***************************************************************************)
(* SyncFileEngine: the synchronous back-end of the block device            *)
(* (src/vmm/src/devices/virtio/block/virtio/io/sync_io.rs).                *)
(***************************************************************************)
\* count of a request, in bytes
MaxCount == 3
\* size of the backing file, in bytes
MaxFile == 4
\* read_at / write_at calls of one request that are interrupted
MaxEintr == 1

\* the file offsets of the requests
IoOffsets == 0..(MaxFile - 2)
\* the backing file before the first request, and the guest slice of a request
FreshFile == [i \in 0..(MaxFile - 1) |-> 10 + i]
FreshBuf(count) == [j \in 0..(count - 1) |-> 100 + j]

NoRequest == [op |-> "none", offset |-> 0, count |-> 0, file |-> FreshFile,
              buf |-> FreshBuf(0)]

IoInit ==
    /\ io_pc = "idle"
    /\ io_req = NoRequest
    /\ bytes_done = 0
    /\ io_file = FreshFile
    /\ io_buf = FreshBuf(0)
    /\ io_dirty = 0
    /\ io_result = <<"none", 0>>
    /\ io_calls = <<>>

IoFrame == UNCHANGED <<busVars, threadVars, virtioVars, vfioVars, walkVars>>

\* read(offset, mem, addr, count) and write(..) up to the loop: get_slice
\* fails with Transfer when the slice is not inside the guest memory (one
\* request is followed from the fresh file to its result)
Request(op, offset, count, slice_ok) ==
    /\ io_pc = "idle"
    /\ io_req' = [op |-> op, offset |-> offset, count |-> count, file |-> io_file,
                  buf |-> FreshBuf(count)]
    /\ io_buf' = FreshBuf(count)
    /\ bytes_done' = 0
    /\ io_dirty' = 0
    /\ io_calls' = <<>>
    /\ io_pc' = IF slice_ok THEN op ELSE "done"
    /\ io_result' = IF slice_ok THEN <<"none", 0>> ELSE <<"Transfer", 0>>
    /\ UNCHANGED io_file
    /\ IoFrame

\* SyncFileEngine::read, entered
SyncRead(offset, count, slice_ok) ==
    /\ ~crashed
    /\ Request("read", offset, count, slice_ok)

\* SyncFileEngine::write, entered
SyncWrite(offset, count, slice_ok) ==
    /\ ~crashed
    /\ Request("write", offset, count, slice_ok)

\* a loop that passes the offset of the request to every call
OffsetOfRequest(offset, done) == offset
\* the file offset of the next read_at / write_at: offset + bytes_done
FileOffset(offset, done) == offset + done

Interrupted == {i \in DOMAIN io_calls : io_calls[i].kind = "EINTR"}

\* what the kernel may answer to a transfer of up to len bytes at pos: n
\* bytes (1 <= n <= len, inside the file), 0 bytes at the end of the file,
\* EINTR, or another error
Answers(pos, len, kind, n) ==
    \/ kind = "Ok" /\ pos < MaxFile /\ 1 <= n /\ n <= len /\ pos + n <= MaxFile
    \/ kind = "Ok" /\ pos >= MaxFile /\ n = 0
    \/ kind = "EINTR" /\ n = 0 /\ Cardinality(Interrupted) < MaxEintr
    \/ kind = "EIO" /\ n = 0

\* a match that also stays in the loop after a transfer of 0 bytes
ContinuesAfterZero(kind, n) == kind \in {"EINTR", "Ok"}
\* a match that returns the error of an interrupted call
ContinuesWithoutRetry(kind, n) == kind = "Ok" /\ n > 0
\* the arms of the match that stay in the loop: Ok(n) with n > 0, and an
\* error of kind Interrupted
Continues(kind, n) == kind = "EINTR" \/ (kind = "Ok" /\ n > 0)

\* one turn of the loop: the call, and the match on its result
Turn(call, zero, kind, n) ==
    LET pos == FileOffset(io_req.offset, bytes_done)
    IN /\ bytes_done < io_req.count
       /\ Answers(pos, io_req.count - bytes_done, kind, n)
       /\ io_calls' = Append(io_calls, [call |-> call, file_offset |-> pos,
                                         buf_pos |-> bytes_done, kind |-> kind, n |-> n])
       /\ bytes_done' = bytes_done + n
       /\ io_pc' = IF Continues(kind, n) THEN io_pc ELSE "done"
       /\ io_result' = IF Continues(kind, n) THEN io_result
                       ELSE IF kind = "Ok" THEN <<"PreadPwrite", zero>>
                       ELSE <<"PreadPwrite", kind>>
       /\ UNCHANGED <<io_req, io_dirty>>
       /\ IoFrame

\* self.file.read_at(&mut buf[bytes_done..], offset + bytes_done)
ReadAt(kind, n) ==
    /\ io_pc = "read"
    /\ Turn("read_at", "UnexpectedEof", kind, n)
    /\ io_buf' = [j \in DOMAIN io_buf |->
                     IF bytes_done <= j /\ j < bytes_done + n
                     THEN io_file[FileOffset(io_req.offset, bytes_done) + (j - bytes_done)]
                     ELSE io_buf[j]]
    /\ UNCHANGED io_file

\* self.file.write_at(&buf[bytes_done..], offset + bytes_done)
WriteAt(kind, n) ==
    /\ io_pc = "write"
    /\ Turn("write_at", "WriteZero", kind, n)
    /\ io_file' = LET pos == FileOffset(io_req.offset, bytes_done)
                  IN [i \in DOMAIN io_file |->
                         IF pos <= i /\ i < pos + n THEN io_buf[bytes_done + (i - pos)]
                         ELSE io_file[i]]
    /\ UNCHANGED io_buf

\* read, after the loop: mark_dirty(0, count) and Ok(count)
ReadOk ==
    /\ io_pc = "read"
    /\ bytes_done >= io_req.count
    /\ io_dirty' = io_req.count
    /\ io_result' = <<"Ok", io_req.count>>
    /\ io_pc' = "done"
    /\ UNCHANGED <<io_req, bytes_done, io_file, io_buf, io_calls>>
    /\ IoFrame

\* write, after the loop: Ok(count)
WriteOk ==
    /\ io_pc = "write"
    /\ bytes_done >= io_req.count
    /\ io_result' = <<"Ok", io_req.count>>
    /\ io_pc' = "done"
    /\ UNCHANGED <<io_req, bytes_done, io_file, io_buf, io_dirty, io_calls>>
    /\ IoFrame

(***************************************************************************)
(* Specifications.                                                         *)
(***************************************************************************)
VirtioQuiet == VirtioInitOf([type |-> "net", opt |-> FALSE])

\* no passed-through device
BundleQuiet ==
    /\ bar_infos = <<>>
    /\ expansion_rom_info = <<>>
    /\ masks = <<>>
    /\ sizing_pending = {}
    /\ config_last = NoConfig
    /\ msix_cap = <<>>
    /\ bar_hole_infos = <<>>
    /\ mmio_last = NoMmio

AttachQuiet ==
    AttachInitOf([reset |-> FALSE, num_regions |-> 9, areas |-> 0,
                  guest_memory |-> <<GuestRegion(1, "Dram", {"PROT_READ", "PROT_WRITE"})>>])

VfioQuiet == AttachQuiet /\ BundleQuiet

\* no block request
IoQuiet == IoInit

\* no capability walk
WalkQuiet == next_cap_offset = 0 /\ msi_cap = <<>> /\ found_caps = {}

\* the bus, called by one thread
Init == BusInit /\ ThreadsInit /\ VirtioQuiet /\ VfioQuiet /\ IoQuiet /\ WalkQuiet

Next ==
    \/ \E inp \in InsertInputs : Insert(inp[1], inp[2])
    \/ \E addr \in Addrs, buf \in Bufs : Read(addr, buf)
    \/ \E addr \in Addrs, buf \in Bufs : Write(addr, buf)
    \/ \E addr \in Addrs : GetDevice(addr)

Spec == Init /\ [][Next]_vars

\* the bus, called by the vCPU threads
NextThreads ==
    \/ \E inp \in InsertInputs : Insert(inp[1], inp[2])
    \/ \E t \in Threads, addr \in Addrs, op \in {"read", "write"} : BusEnter(t, addr, op)
    \/ \E t \in Threads : BusReturn(t)
    \/ \E t \in Threads, addr \in Addrs : LockDevice(t, addr)
    \/ \E t \in Threads : UnlockDevice(t)

SpecThreads == Init /\ [][NextThreads]_vars

\* the vCPU threads and the event loop thread
NextCallbacks ==
    \/ \E inp \in InsertInputs : Insert(inp[1], inp[2])
    \/ \E t \in Threads, addr \in Addrs, op \in {"read", "write"} : BusEnter(t, addr, op)
    \/ \E t \in Threads : BusReturn(t)
    \/ \E t \in Threads, addr \in Addrs : LockDevice(t, addr)
    \/ \E t \in Threads : UnlockDevice(t)
    \/ \E d \in 1..MaxDevices : CallbackEnter(d)
    \/ CallbackReturn

SpecCallbacks == Init /\ [][NextCallbacks]_vars

\* one virtio device, its guest driver and the event loop
InitVirtio ==
    /\ BusInit
    /\ ThreadsInit
    /\ IoQuiet
    /\ WalkQuiet
    /\ \E cfg \in DeviceConfigs : VirtioInitOf(cfg)
    /\ VfioQuiet

NextVirtio ==
    \/ \E q \in DOMAIN avail_idx : GuestAddChain(q)
    \/ \E q \in DOMAIN queue_evts : QueueNotify(q)
    \/ Activate
    \/ RunEventLoop

SpecVirtio == InitVirtio /\ [][NextVirtio]_vars

\* the event loop thread runs run_with_timeout again and again
FairSpecVirtio == SpecVirtio /\ WF_vars(RunEventLoop)

\* one attach of a passed-through device
InitAttach ==
    /\ BusInit
    /\ ThreadsInit
    /\ IoQuiet
    /\ WalkQuiet
    /\ VirtioQuiet
    /\ BundleQuiet
    /\ \E inp \in AttachInputs : AttachInitOf(inp)

NextAttach ==
    \/ VfioOpen
    \/ VfioCheckApiVersion
    \/ VfioCheckExtension
    \/ VfioGroupOpen
    \/ VfioGroupCheckStatus
    \/ GroupSetContainer
    \/ VfioContainerSetIommu
    \/ VfioGroupGetDevice
    \/ VfioDeviceGetInfo
    \/ VfioDeviceReset
    \/ VfioDeviceGetRegionInfos
    \/ GetDevicePciCapWalk
    \/ VfioDeviceGetIrqInfos
    \/ DeviceGetBarInfos
    \/ VfioDeviceGetPciCapabilities
    \/ MmapBarsArea
    \/ MmapBarsReturn
    \/ DmaMapGuestMemoryRegion
    \/ DmaMapGuestMemoryReturn

SpecAttach == InitAttach /\ [][NextAttach]_vars

\* the guest's accesses to the config space of a passed-through device
InitVfioConfig ==
    /\ BusInit
    /\ ThreadsInit
    /\ IoQuiet
    /\ WalkQuiet
    /\ VirtioQuiet
    /\ AttachQuiet
    /\ msix_cap = <<>>
    /\ bar_hole_infos = <<>>
    /\ mmio_last = NoMmio
    /\ \E b \in Bundles : BundleInitOf(b)

NextVfioConfig ==
    \/ \E reg_idx \in ConfigRegs, data \in ConfigData : WriteConfigRegister(reg_idx, data)
    \/ \E reg_idx \in ConfigRegs : ReadConfigRegister(reg_idx)

SpecVfioConfig == InitVfioConfig /\ [][NextVfioConfig]_vars

\* the guest's accesses to the trapped pages of a passed-through device
InitVfioMmio ==
    /\ BusInit
    /\ ThreadsInit
    /\ IoQuiet
    /\ WalkQuiet
    /\ VirtioQuiet
    /\ AttachQuiet
    /\ expansion_rom_info = <<>>
    /\ masks = <<>>
    /\ sizing_pending = {}
    /\ config_last = NoConfig
    /\ \E b \in MsixBundles : MsixInitOf(b)

NextVfioMmio ==
    \/ \E hole \in DOMAIN bar_hole_infos, offset \in MmioOffsets, len \in MmioLens :
          BundleRead(hole, offset, len)
    \/ \E hole \in DOMAIN bar_hole_infos, offset \in MmioOffsets, len \in MmioLens :
          BundleWrite(hole, offset, len)

SpecVfioMmio == InitVfioMmio /\ [][NextVfioMmio]_vars

\* the sizing of the BARs and of the expansion ROM of a device
InitVfioBars ==
    /\ BusInit
    /\ ThreadsInit
    /\ IoQuiet
    /\ WalkQuiet
    /\ VirtioQuiet
    /\ BundleQuiet
    /\ attach_pc = "device_get_bar_infos"
    /\ attach_input \in SizedDevices
    /\ attach_trace = <<>>
    /\ container_groups = {}
    /\ iommu_type = "none"
    /\ region_infos = <<>>
    /\ kvm_slots = {}
    /\ dma_maps = {}

NextVfioBars ==
    \/ SizeBars
    \/ SizeExpansionRom

SpecVfioBars == InitVfioBars /\ [][NextVfioBars]_vars

\* mmap_bars on a device whose BARs are sized and whose capabilities are read
InitVfioMap ==
    /\ BusInit
    /\ ThreadsInit
    /\ IoQuiet
    /\ WalkQuiet
    /\ VirtioQuiet
    /\ attach_pc = "mmap_bars"
    /\ attach_input \in MapDevices
    /\ attach_trace = <<>>
    /\ container_groups = {}
    /\ iommu_type = "none"
    /\ region_infos = AllRegions
    /\ kvm_slots = {}
    /\ dma_maps = {}
    /\ bar_infos = attach_input.bar_infos
    /\ msix_cap = attach_input.cap
    /\ expansion_rom_info = <<>>
    /\ masks = <<>>
    /\ sizing_pending = {}
    /\ config_last = NoConfig
    /\ bar_hole_infos = <<>>
    /\ mmio_last = NoMmio

NextVfioMap == MmapBars

SpecVfioMap == InitVfioMap /\ [][NextVfioMap]_vars

\* the walks of the capability chains of a device
InitVfioCaps ==
    /\ BusInit
    /\ ThreadsInit
    /\ IoQuiet
    /\ WalkQuiet
    /\ VirtioQuiet
    /\ BundleQuiet
    /\ attach_pc = "vfio_device_get_region_infos"
    /\ attach_input \in WalkDevices
    /\ attach_trace = <<>>
    /\ container_groups = {}
    /\ iommu_type = "none"
    /\ region_infos = <<>>
    /\ kvm_slots = {}
    /\ dma_maps = {}

NextVfioCaps ==
    \/ RegionCapsStart
    \/ RegionCapsStep
    \/ GetDeviceWalkStart
    \/ GetDeviceWalkStep
    \/ PciCapsStart
    \/ PciCapsStep
    \/ ExtCapsStart
    \/ ExtCapsStep
    \/ ExtCapsReturn

SpecVfioCaps == InitVfioCaps /\ [][NextVfioCaps]_vars

\* the thread of the attach runs on: a walk that can take a step takes it
FairSpecVfioCaps == SpecVfioCaps /\ WF_vars(NextVfioCaps)

\* the requests of the block device to its synchronous back-end
InitSyncIo == BusInit /\ ThreadsInit /\ VirtioQuiet /\ VfioQuiet /\ IoInit /\ WalkQuiet

IoAnswers == {"Ok", "EINTR", "EIO"}

NextSyncIo ==
    \/ \E offset \in IoOffsets, count \in 0..MaxCount, slice_ok \in BOOLEAN :
          SyncRead(offset, count, slice_ok)
    \/ \E offset \in IoOffsets, count \in 0..MaxCount, slice_ok \in BOOLEAN :
          SyncWrite(offset, count, slice_ok)
    \/ \E kind \in IoAnswers, n \in 0..MaxCount : ReadAt(kind, n)
    \/ \E kind \in IoAnswers, n \in 0..MaxCount : WriteAt(kind, n)
    \/ ReadOk
    \/ WriteOk

SpecSyncIo == InitSyncIo /\ [][NextSyncIo]_vars

(***************************************************************************)
(* What the bus is meant to do, in terms of the accepted insert calls.     *)
(***************************************************************************)
IsPio(base) == base < MMIO_MEM_START

\* [b1, b1 + l1) and [b2, b2 + l2) share an address
RangesOverlap(b1, l1, b2, l2) == l1 > 0 /\ l2 > 0 /\ b1 < b2 + l2 /\ b2 < b1 + l1

Entries == {accepted[i] : i \in 1..Len(accepted)}

\* the insert calls accepted before the last insert call
Prior ==
    IF last.op = "insert" /\ last.ret = "Ok"
    THEN {accepted[i] : i \in 1..(Len(accepted) - 1)}
    ELSE Entries

\* the accepted devices that own addr: its range holds addr (PIO), its slot
\* is the slot of addr (MMIO)
Owners(addr) ==
    {e \in Entries :
        IF IsPio(addr)
        THEN IsPio(e.base) /\ e.base <= addr /\ addr < e.base + e.len
        ELSE ~IsPio(e.base) /\ MmioIndex(e.base) = MmioIndex(addr)}

IsAccess == last.op \in {"read", "write"}

\* C1: insert returns Err(Overlap) exactly when [base, base+len) shares an
\* address with the range of a device inserted before in the same address
\* space, and Ok otherwise.
C1_InsertRejectsOverlap ==
    last.op = "insert" =>
        (last.ret = "Overlap" <=>
            \E e \in Prior :
                /\ IsPio(e.base) = IsPio(last.base)
                /\ RangesOverlap(e.base, e.len, last.base, last.len))

\* C2: the ranges the bus holds in one address space are pairwise disjoint:
\* no two PIO entries overlap, no MMIO slot is held by two devices.
C2_RangesDisjoint ==
    /\ \A i, j \in 1..Len(pio_locations) :
          i < j => ~RangesOverlap(pio_locations[i][1], pio_locations[i][2],
                                  pio_locations[j][1], pio_locations[j][2])
    /\ \A e, f \in Entries :
          (~IsPio(e.base) /\ ~IsPio(f.base) /\ e.device # f.device)
              => MmioIndex(e.base) # MmioIndex(f.base)

\* C3: a PIO read or write returns true exactly when addr lies in
\* [base, base+len) of an inserted device; at base+len it returns false.
C3_PioHitIffInRange ==
    (IsAccess /\ IsPio(last.addr)) =>
        (last.ret = "true" <=>
            \E i \in 1..Len(pio_locations) :
                /\ pio_locations[i][1] <= last.addr
                /\ last.addr < pio_locations[i][1] + pio_locations[i][2])

\* C4: a read or write that reaches a device calls its handler exactly once,
\* with the caller's buffer; when that device owns the address the offset is
\* addr - base of the device (PIO) or addr - base of its slot (MMIO).
C4_DispatchOffset ==
    (IsAccess /\ last.ret = "true") =>
        /\ Len(last.calls) = 1
        /\ last.calls[1].op = last.op
        /\ last.calls[1].data = last.buf
        /\ \A e \in Owners(last.addr) :
              e.device = last.calls[1].device =>
                  last.calls[1].offset =
                      last.addr - (IF IsPio(e.base) THEN e.base
                                   ELSE SlotBase(MmioIndex(e.base)))

\* a read reached the device that owns the address, inside its range (PIO)
C4_Witness_Pio ==
    /\ last.op = "read" /\ last.ret = "true" /\ IsPio(last.addr)
    /\ \E e \in Owners(last.addr) :
          e.device = last.calls[1].device /\ last.calls[1].offset = 5
    /\ last.data = <<5, 6>>

\* C5: on an address no device owns, read returns false and leaves buf as it
\* was, write returns false, and no device handler runs.
C5_MissIsNoOp ==
    (IsAccess /\ Owners(last.addr) = {}) =>
        /\ last.ret = "false"
        /\ last.data = last.buf
        /\ last.calls = <<>>

\* C6: an access at an address >= MMIO_MEM_START whose slot has no device does
\* not panic: it is handled as a miss.
C6_UnassignedSlotIsMiss ==
    (/\ last.op \in {"read", "write", "get_device"}
     /\ ~IsPio(last.addr)
     /\ Owners(last.addr) = {}) => last.ret \in {"false", "None"}

\* C7: a device inserted with base >= MMIO_MEM_START is the device read and
\* write dispatch to for exactly the addresses of slot
\* (base - MMIO_MEM_START) / MMIO_LEN, whatever the insertion order.
C7_MmioDispatchBySlot ==
    (IsAccess /\ ~IsPio(last.addr)) =>
        \A e \in Entries :
            ~IsPio(e.base) =>
                ((\E k \in 1..Len(last.calls) : last.calls[k].device = e.device)
                    <=> MmioIndex(e.base) = MmioIndex(last.addr))

\* C8: at most one thread at a time executes the read/write handler of a
\* bus device: Bus::read and Bus::write calls on one device are serialized.
C8_HandlerMutualExclusion ==
    \A d \in DOMAIN mutex :
        Cardinality({t \in Threads :
            vcpu[t].state = "in_handler" /\ vcpu[t].device = d}) <= 1

C11_SetIommuOnceAfterGroup ==
    /\ Cardinality(Calls("VFIO_SET_IOMMU")) <= 1
    /\ \A i \in Calls("VFIO_SET_IOMMU") :
           \E j \in Succeeded("VFIO_GROUP_SET_CONTAINER") : j < i
    /\ Calls("VFIO_SET_IOMMU") # {} => container_groups # {}
    /\ attach_pc = "returned" =>
           /\ Cardinality(Succeeded("VFIO_SET_IOMMU")) = 1
           /\ iommu_type = "Type1v2"

C11_Witness ==
    /\ attach_pc = "returned"
    /\ Succeeded("VFIO_SET_IOMMU") # {}
    /\ Succeeded("VFIO_GROUP_SET_CONTAINER") # {}

\* the place of a call in the list of steps of the attach
StepOf(call) ==
    CASE call \in {"open_container", "VFIO_GET_API_VERSION", "VFIO_CHECK_EXTENSION"} -> 1
      [] call \in {"open_group", "VFIO_GROUP_GET_STATUS"} -> 2
      [] call = "VFIO_GROUP_SET_CONTAINER" -> 3
      [] call = "VFIO_SET_IOMMU" -> 4
      [] call = "VFIO_GROUP_GET_DEVICE_FD" -> 5
      [] call \in {"VFIO_DEVICE_GET_INFO", "VFIO_DEVICE_RESET"} -> 6
      [] call = "VFIO_DEVICE_GET_REGION_INFO" -> 7
      [] call = "VFIO_DEVICE_GET_IRQ_INFO" -> 8
      [] call = "pci_capability_walk" -> 9
      [] call = "bar_sizing" -> 10
      [] call \in {"mmap", "next_kvm_slot", "KVM_SET_USER_MEMORY_REGION"} -> 12
      [] call = "VFIO_IOMMU_MAP_DMA" -> 13

\* C12: the calls of an attach follow the order of the listed steps: no call
\* of a step is issued after a call of a later step, and in particular no
\* BAR is sized before the PCI capability walk.
C12_StepsInOrder ==
    /\ \A i, j \in 1..Len(attach_trace) :
           (i < j /\ StepOf(attach_trace[j].call) < 12) =>
               StepOf(attach_trace[i].call) <= StepOf(attach_trace[j].call)
    /\ \A j \in Calls("bar_sizing") : \E i \in Calls("pci_capability_walk") : i < j

\* C13: when a call fails after the group was added to the container, the
\* attach ends with the group removed from the container by a
\* GROUP_UNSET_CONTAINER.
C13_GroupRemovedOnFailure ==
    (attach_pc = "panicked" /\ Succeeded("VFIO_GROUP_SET_CONTAINER") # {}) =>
        /\ container_groups = {}
        /\ Calls("VFIO_GROUP_UNSET_CONTAINER") # {}

\* C14: when a KVM_SET_USER_MEMORY_REGION or an IOMMU_MAP_DMA fails after
\* some areas or regions were mapped, the attach ends with no KVM memory
\* slot and no IOMMU map of its own left.
C14_MappingsUnwoundOnFailure ==
    attach_pc = "panicked" => (kvm_slots = {} /\ dma_maps = {})

(***************************************************************************)
(* The emulated BAR and ROM registers.                                     *)
(***************************************************************************)
\* the recorded BARs whose register, or whose high register, reg_idx is
LowOf(reg_idx) == {i \in DOMAIN bar_infos : bar_infos[i].idx = reg_idx - 4}
HighOf(reg_idx) ==
    {i \in DOMAIN bar_infos :
        bar_infos[i].is_64_bits /\ bar_infos[i].idx + 1 = reg_idx - 4}

\* ~(size - 1) of a size that is not 0: the lowest 1 bit of size stays, the
\* bits above it are inverted, the bits below it are 0
NegMask(size) == {b \in U64 : b = Min(size) \/ (b > Min(size) /\ b \notin size)}

\* the last access is a read of a register whose latest write was the
\* 4-byte 0xFFFF_FFFF, not read since
SizingRead == config_last.op = "read" /\ config_last.pending

\* C15: a read of a BAR register that follows a 4-byte write of 0xFFFF_FFFF
\* to it returns ~(size - 1) & 0xFFFF_FFFF for the register of a recorded
\* BAR and ~(size - 1) >> 32 for the high register of a 64-bit BAR.
C15_SizingReadReturnsMask ==
    SizingRead =>
        /\ \A i \in LowOf(config_last.reg_idx) :
               config_last.ret = Trunc32(NegMask(bar_infos[i].size))
        /\ \A i \in HighOf(config_last.reg_idx) :
               config_last.ret = Shr(NegMask(bar_infos[i].size), 32)

\* the sizing read of the high register of the 8 GiB BAR returned 0xFFFF_FFFE
C15_Witness ==
    /\ SizingRead
    /\ HighOf(config_last.reg_idx) # {}
    /\ config_last.ret = 1..31

\* C16: the sizing read of the low register of a BAR returns the 32-bit
\* size mask together with the type bits of the BAR, 0xFFFF_C004 for a
\* 64-bit BAR of 0x4000 bytes that is not prefetchable.
C16_SizingReadKeepsTypeBits ==
    SizingRead =>
        \A i \in LowOf(config_last.reg_idx) :
            config_last.ret = Trunc32(NegMask(bar_infos[i].size)) \cup
                              (IF bar_infos[i].is_64_bits THEN {2} ELSE {}) \cup
                              (IF bar_infos[i].is_prefetchable THEN {3} ELSE {})

\* C17: a read of a BAR register returns the size mask only when the latest
\* write to that register was the 4-byte 0xFFFF_FFFF and it was not read
\* since; every other read returns the allocated address, the low half with
\* the type bits or the high half.
C17_SizingFlagConsumed ==
    (config_last.op = "read" /\ ~config_last.pending) =>
        /\ \A i \in LowOf(config_last.reg_idx) :
               config_last.ret = Trunc32(bar_infos[i].gpa) \cup
                                 (IF bar_infos[i].is_64_bits THEN {2} ELSE {}) \cup
                                 (IF bar_infos[i].is_prefetchable THEN {3} ELSE {})
        /\ \A i \in HighOf(config_last.reg_idx) :
               config_last.ret = Shr(bar_infos[i].gpa, 32)

\* C18: the read of the ROM register that follows a 4-byte write of
\* 0xFFFF_FFFF to it returns ~(size - 1) as a u32, size being the size
\* recorded in the ExpansionRomInfo.
C18_RomSizingRead ==
    (SizingRead /\ config_last.reg_idx = 12 /\ expansion_rom_info # <<>>) =>
        config_last.ret = Trunc32(NegMask(expansion_rom_info[1].size))

\* C19: with no sizing write made, a read of the ROM register returns the
\* low 32 bits of the address allocated for the ROM together with the
\* validation bits kept from the attach.
C19_RomAddressRead ==
    (/\ config_last.op = "read"
     /\ config_last.reg_idx = 12
     /\ expansion_rom_info # <<>>
     /\ ~expansion_rom_info[1].about_to_read_size) =>
        config_last.ret = Trunc32(expansion_rom_info[1].gpa) \cup
                          expansion_rom_info[1].extra

(***************************************************************************)
(* The trapped MSI-X pages.                                                *)
(***************************************************************************)
\* the guest address base + offset of the last access
AccessAddr == Add64(mmio_last.base, BitsOf(mmio_last.offset))

\* the guest addresses of the bytes at range = (offset, size) of the BAR bir
BytesOf(bir, range) ==
    {Add64(bar_infos[i].gpa, BitsOf(range[1] + k)) :
        i \in {j \in DOMAIN bar_infos : bar_infos[j].idx = bir}, k \in 0..(range[2] - 1)}

\* the last access lies in the bytes of the MSI-X table, or of the PBA
InTable ==
    /\ mmio_last.op # "none"
    /\ AccessAddr \in BytesOf(table_bir(msix_cap[1]), table_range(msix_cap[1]))
InPba ==
    /\ mmio_last.op # "none"
    /\ AccessAddr \in BytesOf(pba_bir(msix_cap[1]), pba_range(msix_cap[1]))

\* C20: an access to the bytes of the MSI-X table is served by the table
\* handler of MsixConfig and an access to the bytes of the PBA by its PBA
\* handler, and neither is forwarded to the physical device.
C20_HoleServedByMsixConfig ==
    /\ InTable =>
          /\ mmio_last.calls # <<>>
          /\ \A i \in DOMAIN mmio_last.calls :
                 mmio_last.calls[i].handler = Handler(mmio_last.op, "Table")
    /\ InPba =>
          /\ mmio_last.calls # <<>>
          /\ \A i \in DOMAIN mmio_last.calls :
                 mmio_last.calls[i].handler = Handler(mmio_last.op, "Pba")

\* the BARs whose guest range holds the last access
AccessBars ==
    {i \in DOMAIN bar_infos :
        /\ Leq64(bar_infos[i].gpa, AccessAddr)
        /\ ~Leq64(Add64(bar_infos[i].gpa, bar_infos[i].size), AccessAddr)}

\* C21: an access to a trapped page outside the bytes of the table and of
\* the PBA is forwarded once, to the region of its BAR, at the file offset
\* region.offset + (offset of the access in the BAR), and stays inside the
\* region (no panic).
C21_OutsideHoleForwardedAtRegionOffset ==
    (mmio_last.op # "none" /\ ~InTable /\ ~InPba) =>
        /\ Len(mmio_last.calls) = 1
        /\ mmio_last.calls[1].handler = "vfio_device_region_" \o mmio_last.op
        /\ mmio_last.calls[1].in_bounds
        /\ \E i \in AccessBars :
              /\ mmio_last.calls[1].region = bar_infos[i].idx
              /\ Add64(bar_infos[i].gpa, mmio_last.calls[1].file_offset)
                     = Add64(AccessAddr, VfioRegionInfo(bar_infos[i].idx).offset)

\* the last access is a completed read of a register that is neither a BAR
\* register nor the ROM register
OtherRead ==
    /\ config_last.op = "read"
    /\ ~IsBarReg(config_last.reg_idx)
    /\ config_last.reg_idx # 12
    /\ ~crashed

\* C22: the read of another register returns the dword of the config region
\* at reg_idx * 4, as (R & mask) | value when a mask is recorded for the
\* register and unchanged otherwise, and masking the result again leaves it.
C22_OtherRegisterMasked ==
    OtherRead =>
        /\ config_last.forwards = 1
        /\ config_last.config_offset = config_last.reg_idx * 4
        /\ \A i \in DOMAIN masks :
              (masks[i].register = config_last.reg_idx
               /\ \A j \in 1..(i - 1) : masks[j].register # config_last.reg_idx)
              => config_last.ret = (config_last.dword \cap masks[i].mask) \cup masks[i].value
        /\ (\A i \in DOMAIN masks : masks[i].register # config_last.reg_idx)
              => config_last.ret = config_last.dword
        /\ Masked(config_last.reg_idx, config_last.ret) = config_last.ret

\* a masked register was read and the device's dword had bits outside the mask
C22_Witness ==
    /\ OtherRead
    /\ \E i \in DOMAIN masks : masks[i].register = config_last.reg_idx
    /\ config_last.dword = U32
    /\ config_last.ret = 16..31

\* C23: when dma_map_guest_memory has returned, every Dram region of the
\* guest memory has its IOMMU map with iova = start, size = size, vaddr =
\* host pointer and the READ / WRITE flags of its protection, and every map
\* of guest memory belongs to a Dram region.
C23_EveryDramRegionMapped ==
    attach_pc = "returned" =>
        /\ \A i \in DOMAIN attach_input.guest_memory :
              LET R == attach_input.guest_memory[i]
              IN R.region_type = "Dram" =>
                    \E m \in dma_maps :
                        /\ m[1] = "dram"
                        /\ m[3].iova = R.start_addr
                        /\ m[3].size = R.size
                        /\ m[3].vaddr = R.as_ptr
                        /\ ("VFIO_DMA_MAP_FLAG_READ" \in m[3].flags) = ("PROT_READ" \in R.prot)
                        /\ ("VFIO_DMA_MAP_FLAG_WRITE" \in m[3].flags) = ("PROT_WRITE" \in R.prot)
        /\ \A m \in dma_maps :
              m[1] = "dram" =>
                  \E i \in DOMAIN attach_input.guest_memory :
                      /\ attach_input.guest_memory[i].region_type = "Dram"
                      /\ attach_input.guest_memory[i].start_addr = m[3].iova
        /\ Cardinality(Calls("VFIO_IOMMU_MAP_DMA"))
             = attach_input.areas + Len(DramRegions(attach_input.guest_memory))

\* a memory with a Dram region and a region of another type has been mapped
C23_Witness ==
    /\ attach_pc = "returned"
    /\ \E i, j \in DOMAIN attach_input.guest_memory :
          /\ attach_input.guest_memory[i].region_type = "Dram"
          /\ attach_input.guest_memory[j].region_type = "Hotplug"
    /\ \E m \in dma_maps : m[1] = "dram"

\* the calls of the request that transferred bytes, in order
Transfers == SelectSeq(io_calls, LAMBDA c : c.kind = "Ok" /\ c.n > 0)

RECURSIVE SumN(_, _)
SumN(calls, k) == IF k = 0 THEN 0 ELSE calls[k].n + SumN(calls, k - 1)

\* C24: read and write return Ok(count) only when exactly count bytes went
\* between the file extent [offset, offset + count) and the slice; every
\* call after a short transfer starts at offset + bytes_done in the file and
\* at bytes_done in the slice, so the transfers tile the extent in order.
C24_OkMeansAllBytesTransferred ==
    (io_pc = "done" /\ io_result[1] = "Ok") =>
        /\ io_result[2] = io_req.count
        /\ SumN(Transfers, Len(Transfers)) = io_req.count
        /\ \A k \in DOMAIN Transfers :
              /\ Transfers[k].buf_pos = SumN(Transfers, k - 1)
              /\ Transfers[k].file_offset = io_req.offset + SumN(Transfers, k - 1)
        /\ io_req.op = "read" =>
              \A j \in 0..(io_req.count - 1) : io_buf[j] = io_req.file[io_req.offset + j]
        /\ io_req.op = "write" =>
              /\ \A j \in 0..(io_req.count - 1) : io_file[io_req.offset + j] = io_req.buf[j]
              /\ \A i \in DOMAIN io_file :
                    (i < io_req.offset \/ i >= io_req.offset + io_req.count)
                    => io_file[i] = io_req.file[i]

\* a read of three bytes that took a short transfer and then the rest
C24_Witness ==
    /\ io_pc = "done"
    /\ io_result = <<"Ok", 3>>
    /\ io_req.op = "read"
    /\ Len(Transfers) = 2
    /\ Transfers[1].n = 1

\* C25: an insert with length 0 returns an error and adds no device to the
\* bus.
C25_InsertZeroLenRejected ==
    (last.op = "insert" /\ last.len = 0) =>
        /\ last.ret # "Ok"
        /\ \A i \in DOMAIN accepted : accepted[i].device # last.device
        /\ \A i \in DOMAIN pio_locations : pio_locations[i][2] # 0

\* !x + 1 as the two's complement of x: the lowest 1 bit of x stays, the
\* bits above it are inverted
TwosComplement(x, width) ==
    IF x = {} THEN {} ELSE {Min(x)} \cup {b \in width : b > Min(x) /\ b \notin x}

\* the memory BARs of the device that was sized
MemoryBars ==
    {k \in DOMAIN attach_input.layout : attach_input.layout[k].kind # "io"}

\* C26: device_get_bar_infos records for every memory BAR the size
\* ~(readback & ~0xF) + 1, over 32 bits for a 32-bit BAR and over
\* upper << 32 | lower for a 64-bit BAR, allocates a range of that size, no
\* addition overflows, and a BAR of size 0 gets no BarInfo and no range.
C26_BarSizeFromReadback ==
    (attach_pc \in {"device_get_expansion_rom_info", "sized"}) =>
        /\ ~SizedBars(attach_input).overflow
        /\ Len(bar_infos) = Cardinality(MemoryBars)
        /\ \A k \in MemoryBars :
              LET bar == attach_input.layout[k]
                  lower == attach_input.bars[bar.idx].readback
                  upper == attach_input.bars[bar.idx + 1].readback
                  expected == IF bar.kind = "mem32"
                              THEN TwosComplement(lower \ (0..3), U32)
                              ELSE TwosComplement((Shl64(upper, 32) \cup lower) \ (0..3), U64)
              IN \E i \in DOMAIN bar_infos :
                    /\ bar_infos[i].idx = bar.idx
                    /\ bar_infos[i].size = expected
                    /\ bar_infos[i].size = bar.size
                    /\ \E c \in DOMAIN attach_trace :
                          /\ attach_trace[c].bar = bar.idx
                          /\ attach_trace[c].size = expected
        /\ \A i \in DOMAIN bar_infos : bar_infos[i].size # {}
        /\ \A c \in DOMAIN attach_trace : attach_trace[c].size # {}

\* a device with a 64-bit BAR of 8 GiB, an I/O BAR and a 32-bit BAR was sized
C26_Witness ==
    /\ attach_pc = "device_get_expansion_rom_info"
    /\ Len(bar_infos) = 2
    /\ bar_infos[1].size = {33}
    /\ bar_infos[1].is_64_bits
    /\ bar_infos[2].idx = 3

\* C27: device_get_expansion_rom_info records as size the ROM size in
\* bytes, ~(readback & ~low_bits) + 1, and allocates an MMIO32 range of that
\* many bytes.
C27_RomSizeFromReadback ==
    (attach_pc = "sized" /\ expansion_rom_info # <<>>) =>
        LET expected == TwosComplement(Trunc32(attach_input.rom.readback) \ (0..10), U32)
        IN /\ expansion_rom_info[1].size = expected
           /\ \E c \in DOMAIN attach_trace :
                 attach_trace[c].bar = 12 /\ attach_trace[c].size = expected


\* mmap_bars returned on a device with MSI-X
Mapped == attach_pc = AfterStep("mmap_bars") /\ msix_cap # <<>>

\* the BARs whose guest range holds the whole hole
BarsOfHole(h) ==
    {i \in DOMAIN bar_infos :
        /\ Leq64(bar_infos[i].gpa, h.gpa)
        /\ Leq64(Add64(h.gpa, BitsOf(h.size)), Add64(bar_infos[i].gpa, bar_infos[i].size))}

\* the BARs whose guest range holds the first byte of the hole
BarsOfHoleStart(h) ==
    {i \in DOMAIN bar_infos :
        /\ Leq64(bar_infos[i].gpa, h.gpa)
        /\ ~Leq64(Add64(bar_infos[i].gpa, bar_infos[i].size), h.gpa)}

\* C28: mmap_bars records a Table hole only inside the BAR that table_bir
\* names and a Pba hole only inside the BAR that pba_bir names, also when the
\* two differ.
C28_HolesInTheirBar ==
    Mapped =>
        \A h \in DOMAIN bar_hole_infos :
            \A i \in BarsOfHoleStart(bar_hole_infos[h]) :
                bar_infos[i].idx = IF bar_hole_infos[h].usage = "Table"
                                   THEN table_bir(msix_cap[1]) ELSE pba_bir(msix_cap[1])

\* C29: every hole that mmap_bars produces lies within exactly one BAR,
\* whatever the size of the table and the offsets of the table and the PBA.
C29_HoleWithinOneBar ==
    Mapped =>
        \A h \in DOMAIN bar_hole_infos : Cardinality(BarsOfHole(bar_hole_infos[h])) = 1

\* two byte ranges (offset, size) of one BAR share a byte
Intersect(r1, r2) == r1[1] < r2[1] + r2[2] /\ r2[1] < r1[1] + r1[2]

\* C30: no KVM memory slot that mmap_bars installed shares a byte with the
\* MSI-X table or with the PBA inside its BAR.
C30_NoSlotOverMsix ==
    (attach_pc # "mmap_bars" /\ msix_cap # <<>>) =>
        \A slot \in kvm_slots :
            /\ slot.bar = table_bir(msix_cap[1]) =>
                  ~Intersect(<<slot.offset, slot.memory_size>>, table_range(msix_cap[1]))
            /\ slot.bar = pba_bir(msix_cap[1]) =>
                  ~Intersect(<<slot.offset, slot.memory_size>>, pba_range(msix_cap[1]))

\* the BARs of the device whose region has the MsixMappable capability and
\* no SparseMmap capability and that hold the MSI-X table
MappableTableBars ==
    {b \in {bar_infos[i].idx : i \in DOMAIN bar_infos} :
        /\ msix_cap # <<>>
        /\ b = table_bir(msix_cap[1])
        /\ attach_input.regions[b + 1].msix_mappable
        /\ attach_input.regions[b + 1].sparse_mmap = <<>>}

\* C31: for a BAR that holds the MSI-X table and whose region is
\* MsixMappable without SparseMmap, mmap_bars installs no KVM slot and no
\* DMA map.
C31_MappableTableBarNotMapped ==
    attach_pc # "mmap_bars" =>
        \A b \in MappableTableBars :
            /\ \A slot \in kvm_slots : slot.bar # b
            /\ \A map \in dma_maps : map.bar # b

\* C36: after the enumeration of the regions the entry at position i of
\* region_infos is the info of region i (positions count from 0), whichever
\* DEVICE_GET_REGION_INFO calls failed.
C36_RegionInfoAtItsIndex ==
    \A i \in DOMAIN region_infos : region_infos[i] = i - 1

\* the number whose binary digits are the bits below 3 of n
LowThreeBits(n) ==
    (IF 0 \in BitsOf(n) THEN 1 ELSE 0) + (IF 1 \in BitsOf(n) THEN 2 ELSE 0)
    + (IF 2 \in BitsOf(n) THEN 4 ELSE 0)

\* C32: for every MsixCap, table_size() is in [1, 2048], table_bir() is
\* table_offset & 7, pba_bir() is pba_offset & 7 and table_range() is
\* (table_offset with the low 3 bits cleared, 16 * table_size()).
C32_MsixCapAccessors ==
    msix_cap # <<>> =>
        LET cap == msix_cap[1]
        IN /\ table_size(cap) \in 1..2048
           /\ table_bir(cap) = LowThreeBits(cap.table_offset)
           /\ pba_bir(cap) = LowThreeBits(cap.pba_offset)
           /\ BitsOf(table_range(cap)[1]) = BitsOf(cap.table_offset) \ {0, 1, 2}
           /\ table_range(cap)[2] = 16 * table_size(cap)

\* the walk recorded an MSI-X capability whose message control register has
\* bits above the table size and whose table offset has every bit set
C32_Witness ==
    /\ msix_cap # <<>>
    /\ msix_cap[1].msg_ctl = 65535
    /\ msix_cap[1].table_offset = 2147483647
    /\ table_size(msix_cap[1]) = 2048

\* C37: the walks of the region's capability chain, of the PCI capability
\* chain and of the extended capability chain terminate for every content
\* of the region info and of the config space, also when the next pointers
\* form a cycle.
C37_WalksTerminate == <>(attach_pc \in {"walked", "panicked"})

\* the calls of the request that returned Ok(0)
ZeroTransfers == {i \in DOMAIN io_calls : io_calls[i].kind = "Ok" /\ io_calls[i].n = 0}

\* C33: a read_at that returns 0 bytes before count bytes were read ends the
\* read with PreadPwrite(UnexpectedEof), a write_at that returns 0 ends the
\* write with PreadPwrite(WriteZero); no call follows it and the request
\* does not return Ok.
C33_ZeroTransferFails ==
    \A i \in ZeroTransfers :
        /\ i = Len(io_calls)
        /\ io_pc = "done"
        /\ io_result = <<"PreadPwrite",
                         IF io_req.op = "read" THEN "UnexpectedEof" ELSE "WriteZero">>

\* a read that got two bytes and then 0 bytes at the end of the file
C33_Witness ==
    /\ io_req.op = "read"
    /\ Len(io_calls) = 2
    /\ io_calls[1].n = 2
    /\ 2 \in ZeroTransfers
    /\ io_result = <<"PreadPwrite", "UnexpectedEof">>

\* C34: an interrupted read_at / write_at is retried at the same file offset
\* and the same position of the buffer and does not end the request; any
\* other error ends the request at once with PreadPwrite, with no further
\* call.
C34_EintrRetriedOtherErrorsFail ==
    \A i \in DOMAIN io_calls :
        /\ io_calls[i].kind = "EINTR" =>
              IF i < Len(io_calls)
              THEN /\ io_calls[i + 1].file_offset = io_calls[i].file_offset
                   /\ io_calls[i + 1].buf_pos = io_calls[i].buf_pos
                   /\ io_calls[i + 1].call = io_calls[i].call
              ELSE /\ io_pc = io_req.op
                   /\ io_result = <<"none", 0>>
                   /\ bytes_done = io_calls[i].buf_pos
        /\ io_calls[i].kind = "EIO" =>
              /\ i = Len(io_calls)
              /\ io_pc = "done"
              /\ io_result = <<"PreadPwrite", "EIO">>

\* a write whose second call was interrupted and that ended with Ok
C34_Witness ==
    /\ io_req.op = "write"
    /\ io_pc = "done"
    /\ io_result[1] = "Ok"
    /\ Len(io_calls) = 3
    /\ io_calls[2].kind = "EINTR"
    /\ io_calls[1].n = 1

\* the bytes of the guest slice that the request changed
ModifiedBytes == {j \in DOMAIN io_buf : io_buf[j] # io_req.buf[j]}

\* C40: read marks the count bytes of the slice dirty exactly when it
\* returns Ok, and when it returns an error no byte of the slice that it
\* modified is left unmarked.
C40_ReadDirtyCoversModified ==
    (io_req.op = "read" /\ io_pc = "done") =>
        /\ io_result[1] = "Ok" => io_dirty = io_req.count
        /\ io_result[1] # "Ok" => \A j \in ModifiedBytes : j < io_dirty

\* the BARs of the device whose region is MsixMappable without SparseMmap,
\* and the areas that mmap_bars computes for such a BAR
MappableBars ==
    {i \in DOMAIN bar_infos :
        /\ attach_input.regions[bar_infos[i].idx + 1].msix_mappable
        /\ attach_input.regions[bar_infos[i].idx + 1].sparse_mmap = <<>>}
ComputedAreas(i) ==
    AreasOfBar(attach_input.regions[bar_infos[i].idx + 1], bar_infos[i], msix_cap)

\* C38: the areas that mmap_bars computes around the holes of the table and
\* of the PBA of an MsixMappable BAR without SparseMmap come from no
\* subtraction below 0 and lie inside [0, region.size), wherever table and
\* PBA are in the BAR.
C38_AreasInsideRegion ==
    attach_pc # "mmap_bars" =>
        \A i \in MappableBars :
            \A k \in DOMAIN ComputedAreas(i) :
                /\ ComputedAreas(i)[k].size > 0
                /\ ComputedAreas(i)[k].offset >= 0
                /\ ComputedAreas(i)[k].offset + ComputedAreas(i)[k].size
                       <= attach_input.regions[bar_infos[i].idx + 1].size

\* C39: every read or write of a trapped page that reaches the bundle runs
\* exactly one handler (table, PBA, or one forward to the region of the
\* device), also when the Table hole and the Pba hole have the same gpa.
C39_ExactlyOneHandler ==
    mmio_last.op # "none" => Len(mmio_last.calls) = 1

\* C35: while an event-loop callback of a device runs, no vCPU thread is in a
\* bus access to that device and no thread holds that device's mutex.
C35_CallbackRunsAlone ==
    callback # 0 =>
        \A t \in Threads :
            vcpu[t].device = callback => vcpu[t].state = "idle"

====
